---------------------------- MODULE Spec2Model ----------------------------
(***************************************************************************)
(* csvq: the one-shot runner and the interactive shell of lib/action/run.go *)
(* over the procedure runtime, the transaction manager, the file locks and  *)
(* the cursors of lib/query and lib/file.                                   *)
(*                                                                         *)
(* run.go is modelled from its source.  The procedure runtime, the          *)
(* transaction manager, the file handlers and the cursors are the callees   *)
(* of run.go and of the tests in lib/query; they are modelled from the      *)
(* design document (sections 3, 4.3, 4.4, 4.5).                             *)
(***************************************************************************)
EXTENDS Integers, Sequences, FiniteSets, TLC

VARIABLES
    \* ---- transaction manager and file layer
    tx,          \* disk, temp files, locks, view cache, uncommitted views
    \* ---- Procedure.Execute, as called by Run and by the shell
    pc,          \* position in Run / LaunchInteractiveShell
    nExec,       \* statements executed by the current Execute call
    flow,        \* flow returned by Execute
    execErr,     \* error returned by Execute
    retErr,      \* error returned by Run / LaunchInteractiveShell
    calls,       \* the calls Run / the shell made itself, in order
    \* ---- Run: its arguments and the output file
    args,        \* does the input parse, is --out given, the file system
    out,         \* the --out file: on disk, size, open, deferred close
    \* ---- LaunchInteractiveShell
    shell,       \* line buffer, terminal, prompt, what the last pass did
    \* ---- file locks between processes
    holders,     \* the lock of one path: the mode each process holds it in
    acquirer,    \* each process's acquisition: state, mode, time waited
    \* ---- the transaction manager, step by step
    op,          \* phase of COMMIT, files left, last operation, tx before it
    \* ---- cursors and variables of the procedure's scope
    cursor,      \* the cursor "cur": state, query, materialized view, pointer
    variables,   \* the variable map of the scope
    fetch,       \* the last FETCH: position, targets, error, in range
    loop,        \* WHILE-IN-CURSOR: targets, pointer at its start, body runs
    \* ---- statements of the procedure runtime, one at a time
    ctl,         \* the control-flow statement in progress and what it ran
    varStmt,     \* the last variable statement, its error, the one before
    trigger,     \* the last TRIGGER ERROR: message and code given, error raised
    flags,       \* the session flags
    flagStmt,    \* the last SET of a flag: name and value given, error
    call,        \* the last call of a built-in function and what it returned
    source       \* each process's SOURCE statement: position, error, result

\* What Execute never touches: the state of its caller
callerVars == <<args, shell>>
procVars == <<tx, pc, nExec, flow, execErr, retErr, calls, args, out, shell>>

\* The variables of the other components, for the frame of each action
lockVars == <<holders, acquirer>>
txVars == <<op>>
curVars == <<cursor, variables, fetch, loop>>
stmtVars == <<ctl, varStmt, trigger, flags, flagStmt, call, source>>
outsideProc == <<lockVars, txVars, curVars, stmtVars>>
outsideLock == <<procVars, txVars, curVars, stmtVars>>
outsideTx == <<pc, nExec, flow, execErr, retErr, calls, args, out, shell,
               lockVars, curVars, stmtVars>>
outsideCur == <<tx, nExec, retErr, calls, args, out, shell, lockVars, txVars,
                stmtVars>>
outsideControl == <<tx, nExec, retErr, calls, args, out, shell, lockVars,
                    txVars, curVars, varStmt, trigger, flags, flagStmt, call,
                    source>>
outsideVariables == <<tx, pc, nExec, retErr, calls, args, out, shell, lockVars,
                      txVars, cursor, fetch, loop, ctl, trigger, flags,
                      flagStmt, call, source>>
outsideTrigger == <<tx, nExec, retErr, calls, args, out, shell, lockVars,
                    txVars, curVars, ctl, varStmt, flags, flagStmt, call,
                    source>>
outsideFlags == <<tx, pc, nExec, retErr, calls, args, out, shell, lockVars,
                  txVars, curVars, ctl, varStmt, trigger, call, source>>
outsideCall == <<tx, pc, nExec, flow, execErr, retErr, calls, args, out, shell,
                 lockVars, txVars, curVars, ctl, varStmt, trigger, flags,
                 flagStmt, source>>

vars == <<procVars, lockVars, txVars, curVars, stmtVars>>

--------------------------------------------------------------------------
(* Bounds of the model *)

MaxRows == 2
MaxStmts == 3
MaxOutBytes == 2
WaitTimeout == 2
MaxCursorRows == 3
MaxIter == 3
MaxElseIf == 2
MaxCode == 9
MaxLen == 2
MaxPad == 5
MaxArgs == 6
IntBits == 5
Prec == 5
FracBits == 8
MaxNumber == 4
MaxPlace == 1
MaxFormats == 3
MaxInstr == 3

--------------------------------------------------------------------------
(* Files, views and the codec *)

None == "none"

\* A path on disk: no file, or a file with its lines
Absent == [exists |-> FALSE, data |-> <<>>]
File(lines) == [exists |-> TRUE, data |-> lines]

\* An entry of the view cache: not loaded, or a view with its recordset
NotLoaded == [loaded |-> FALSE, records |-> <<>>]
View(records) == [loaded |-> TRUE, records |-> records]

Paths == {"n", "t"}
Rows  == {"r1", "r2"}
HeaderLine == "hdr"

\* Recordsets of at most n records
RecordSets(n) == UNION {[1..k -> Rows] : k \in 0..n}

\* The codec of a file format: the header line, then one line per record
Encode(records) == <<HeaderLine>> \o records

\* Loading a file: the first line is the header, the rest are the records
Decode(lines) == IF Len(lines) = 0 THEN <<>> ELSE Tail(lines)

\* The prefixes of a byte sequence: what an interrupted write leaves behind
Prefixes(s) == {SubSeq(s, 1, k) : k \in 0..Len(s)}

\* Paths in the deterministic order of COMMIT
PathOrder(p) == IF p = "n" THEN 1 ELSE 2

RECURSIVE SortedPaths(_)
SortedPaths(S) ==
    IF S = {} THEN <<>>
    ELSE LET p == CHOOSE x \in S : \A y \in S : PathOrder(x) <= PathOrder(y)
         IN  <<p>> \o SortedPaths(S \ {p})

\* The transaction state of a fresh session over the table file "t"
NewTx(records) ==
    [ disk    |-> [p \in Paths |-> IF p = "t" THEN File(Encode(records)) ELSE Absent],
      temp    |-> [p \in Paths |-> Absent],
      lock    |-> {},
      cache   |-> [p \in Paths |-> NotLoaded],
      created |-> {},
      updated |-> {} ]

Dirty(t) == t.created \cup t.updated

--------------------------------------------------------------------------
(* File handlers *)

\* NewHandlerForUpdate: exclusive lock and a sibling temp file
HandlerForUpdate(t, p) ==
    IF p \in t.lock THEN t
    ELSE [t EXCEPT !.lock = @ \cup {p}, !.temp[p] = File(<<>>)]

\* NewHandlerForCreate: creates the file and takes the exclusive lock
HandlerForCreate(t, p) ==
    [t EXCEPT !.disk[p] = File(<<>>), !.lock = @ \cup {p}]

\* Handler.Close: drops the temp file and the lock
CloseHandler(t, p) ==
    [t EXCEPT !.temp[p] = Absent, !.lock = @ \ {p}]

--------------------------------------------------------------------------
(* Statements on views *)

LoadForUpdate(t, p) ==
    LET h == HandlerForUpdate(t, p)
    IN  IF ~h.cache[p].loaded
        THEN [h EXCEPT !.cache[p] = View(Decode(h.disk[p].data))]
        ELSE h

\* UPDATE / INSERT / DELETE on a file-backed view: the recordset changes in
\* memory only, and the view is tracked as uncommitted
UpdateView(t, p, records) ==
    LET l == LoadForUpdate(t, p)
    IN  [l EXCEPT !.cache[p] = View(records),
                  !.updated = IF p \in l.created THEN @ ELSE @ \cup {p}]

\* CREATE TABLE
CreateTable(t, p) ==
    LET h == HandlerForCreate(t, p)
    IN  [h EXCEPT !.cache[p] = View(<<>>), !.created = @ \cup {p}]

--------------------------------------------------------------------------
(* Commit protocol, one step per definition *)

\* Writing the encoding over the target itself
WriteTemp_InPlace(t, p) ==
    [t EXCEPT !.disk[p] = File(Encode(t.cache[p].records))]

\* 1, 2: encode the view and write it to the sibling temp file
WriteTemp(t, p) == [t EXCEPT !.temp[p] = File(Encode(t.cache[p].records))]

\* 3: rename the temp file over the target
RenameTemp(t, p) == [t EXCEPT !.disk[p] = t.temp[p], !.temp[p] = Absent]

\* 4: release the lock; the view is no longer uncommitted
ReleaseCommitted(t, p) ==
    [t EXCEPT !.lock = @ \ {p}, !.created = @ \ {p}, !.updated = @ \ {p}]

CommitFile(t, p) == ReleaseCommitted(RenameTemp(WriteTemp(t, p), p), p)

RECURSIVE CommitFiles(_, _)
CommitFiles(t, queue) ==
    IF queue = <<>> THEN t
    ELSE CommitFiles(CommitFile(t, Head(queue)), Tail(queue))

\* COMMIT: every dirty file, in path order
Commit(t) == CommitFiles(t, SortedPaths(Dirty(t)))

\* A COMMIT that fails on its first file before the rename: the temp file
\* holds what was written, nothing else has changed
CommitFailed(t) ==
    IF Dirty(t) = {} THEN t
    ELSE WriteTemp(t, Head(SortedPaths(Dirty(t))))

--------------------------------------------------------------------------
(* Rollback protocol *)

\* A rollback that leaves the created file behind
RollbackFile_KeepCreated(t, p) ==
    LET c == CloseHandler(t, p)
    IN  [c EXCEPT !.cache[p] = NotLoaded,
                  !.created = @ \ {p},
                  !.updated = @ \ {p}]

RollbackFile(t, p) ==
    LET c == CloseHandler(t, p)
    IN  [c EXCEPT !.disk[p] = IF p \in t.created THEN Absent ELSE @,
                  !.cache[p] = NotLoaded,
                  !.created = @ \ {p},
                  !.updated = @ \ {p}]

RECURSIVE RollbackFiles(_, _)
RollbackFiles(t, queue) ==
    IF queue = <<>> THEN t
    ELSE RollbackFiles(RollbackFile(t, Head(queue)), Tail(queue))

\* ROLLBACK: discard the uncommitted views, delete the created files,
\* release the locks
Rollback(t) == RollbackFiles(t, SortedPaths(Dirty(t) \cup t.lock))

\* ReleaseResources: close every handler still open
RECURSIVE CloseHandlers(_, _)
CloseHandlers(t, queue) ==
    IF queue = <<>> THEN t
    ELSE CloseHandlers(CloseHandler(t, Head(queue)), Tail(queue))

ReleaseResources(t) == CloseHandlers(t, SortedPaths(t.lock))

\* No operation of the transaction manager is in progress or recorded
NoStart == NewTx(<<>>)
IdleOp == [phase |-> "idle", queue |-> <<>>, last |-> None, start |-> NoStart]

--------------------------------------------------------------------------
(* Values, variables and the cursor of a scope *)

Null == [type |-> "null", s |-> "", n |-> 0]
Str(prefix, i) == [type |-> "string", s |-> prefix, n |-> i]

\* The variables declared in the scope; @var3 is not declared
Declared == {"@var1", "@var2"}
NoVariables == [v \in Declared |-> Null]

\* No cursor is declared
NoCursor ==
    [state |-> "Undeclared", query |-> [n |-> 0, desc |-> FALSE],
     view |-> <<>>, pointer |-> 0, delivered |-> <<>>, onlyNext |-> TRUE]

NoFetch == [pos |-> [kind |-> None, n |-> 0], targets |-> <<>>,
            err |-> None, inRange |-> FALSE]
NoLoop == [targets |-> <<>>, start |-> 0, ran |-> <<>>, last |-> None]

IdleCursor ==
    /\ cursor = NoCursor
    /\ variables = NoVariables
    /\ fetch = NoFetch
    /\ loop = NoLoop

\* No control-flow statement is in progress
NoCtl == [stmt |-> None, conds |-> <<>>, hasElse |-> FALSE, evals |-> 0,
          cond |-> None, iter |-> 0, ran |-> <<>>, last |-> None]

\* No variable statement has run
NoVarStmt == [kind |-> None, name |-> None, value |-> Null, err |-> None,
              prev |-> [kind |-> None, name |-> None, err |-> None]]

\* Strings are sequences of characters; the decimal digits
DigitChars == <<"0", "1", "2", "3", "4", "5", "6", "7", "8", "9">>

\* strconv.Itoa of a natural number
RECURSIVE Itoa(_)
Itoa(n) ==
    IF n < 0 THEN <<"-">> \o Itoa(-n)
    ELSE IF n < 10 THEN <<DigitChars[n + 1]>>
    ELSE Itoa(n \div 10) \o <<DigitChars[(n % 10) + 1]>>

\* The literals of a statement: none, a string, an integer
NoLiteral == [type |-> "none", text |-> <<>>, n |-> 0]
StringLiteral(text) == [type |-> "string", text |-> text, n |-> 0]
IntegerLiteral(n) == [type |-> "integer", text |-> <<>>, n |-> n]

\* No code is given
NoCode == -1

\* No TRIGGER ERROR has run
NoTrigger == [message |-> NoLiteral, code |-> NoCode, raised |-> FALSE,
              err |-> [code |-> 0, message |-> <<>>]]

\* The primary values: Null, strings, integers, floats (the integral ones),
\* booleans, ternaries (1 TRUE, 0 FALSE, -1 UNKNOWN)
NullValue == [type |-> "null", text |-> <<>>, n |-> 0]
NewString(text) == [type |-> "string", text |-> text, n |-> 0]
NewInteger(n) == [type |-> "integer", text |-> <<>>, n |-> n]
NewFloat(n) == [type |-> "float", text |-> <<>>, n |-> n]
NewBoolean(b) == [type |-> "boolean", text |-> <<>>, n |-> IF b THEN 1 ELSE 0]
NewTernary(n) == [type |-> "ternary", text |-> <<>>, n |-> n]
NewDatetime(n) == [type |-> "datetime", text |-> <<>>, n |-> n]
IsNull(p) == p.type = "null"

\* The session flags at start
NewFlags ==
    [LINE_BREAK |-> <<"L", "F">>, NO_HEADER |-> FALSE, WAIT_TIMEOUT |-> 10,
     CPU |-> 1, DATETIME_FORMAT |-> <<>>]

\* No flag has been set
NoFlagStmt == [name |-> None, kind |-> None, value |-> NullValue, err |-> None]

\* No function has been called
Nil == [type |-> "nil", text |-> <<>>, n |-> 0]
NoCall == [fn |-> None, args |-> <<>>, result |-> Nil, err |-> None]

\* No SOURCE statement in progress
Procs == {"p1", "p2", "p3"}
IdleSource == [st |-> "idle", err |-> None, statements |-> FALSE]
NoSource == [q \in Procs |-> IdleSource]

IdleStatements ==
    /\ ctl = NoCtl
    /\ varStmt = NoVarStmt
    /\ trigger = NoTrigger
    /\ flags = NewFlags
    /\ flagStmt = NoFlagStmt
    /\ call = NoCall
    /\ source = NoSource

--------------------------------------------------------------------------
(* Procedure.Execute: the statement dispatcher, one statement per step.    *)
(* The statements of the parsed input are drawn one at a time.             *)

Terminate == "Terminate"
Exit      == "Exit"
ErrorFlow == "Error"

PlainError == "Error"
ForcedExit == "ForcedExit"
SyntaxError == "SyntaxError"


\* Execute returns (f, e)
Returned(f, e) ==
    /\ flow' = f
    /\ execErr' = e
    /\ pc' = "executed"

\* The recordsets an UPDATE, INSERT or DELETE of a script leaves in a view
ExecRecords == {<<>>, <<"r2">>}

Executing == pc = "execute" /\ nExec < MaxStmts

\* UPDATE, INSERT or DELETE on a table whose file exists
ExecUpdate(p, records) ==
    /\ Executing
    /\ tx.disk[p].exists
    /\ tx' = UpdateView(tx, p, records)
    /\ nExec' = nExec + 1
    /\ UNCHANGED <<pc, flow, execErr, retErr, calls, out, callerVars, outsideProc>>

\* CREATE TABLE on a path with no file
ExecCreate(p) ==
    /\ Executing
    /\ ~tx.disk[p].exists
    /\ tx' = CreateTable(tx, p)
    /\ nExec' = nExec + 1
    /\ UNCHANGED <<pc, flow, execErr, retErr, calls, out, callerVars, outsideProc>>

\* COMMIT statement: flushes all dirty views, or fails and ends the script
ExecCommit(ok) ==
    /\ Executing
    /\ nExec' = nExec + 1
    /\ IF ok
       THEN /\ tx' = Commit(tx)
            /\ UNCHANGED <<pc, flow, execErr>>
       ELSE /\ Dirty(tx) # {}
            /\ tx' = CommitFailed(tx)
            /\ Returned(ErrorFlow, PlainError)
    /\ UNCHANGED <<retErr, calls, out, callerVars, outsideProc>>

\* ROLLBACK statement: discards and drops locks
ExecRollback ==
    /\ Executing
    /\ tx' = Rollback(tx)
    /\ nExec' = nExec + 1
    /\ UNCHANGED <<pc, flow, execErr, retErr, calls, out, callerVars, outsideProc>>

\* SELECT: the result set goes to the output file when one is open
ExecSelect ==
    /\ Executing
    /\ nExec' = nExec + 1
    /\ out' = IF out.open /\ out.size < MaxOutBytes
              THEN [out EXCEPT !.size = @ + 1]
              ELSE out
    /\ UNCHANGED <<tx, pc, flow, execErr, retErr, calls, callerVars, outsideProc>>

\* EXIT: the flow bubbles up to the caller of Execute
ExecExit ==
    /\ Executing
    /\ nExec' = nExec + 1
    /\ Returned(Exit, None)
    /\ UNCHANGED <<tx, retErr, calls, out, callerVars, outsideProc>>

\* A statement that fails (TRIGGER ERROR, an undefined name, ...), or an EXIT
\* with a code (ForcedExit): the statement leaves no effect of its own
ExecError(e) ==
    /\ Executing
    /\ nExec' = nExec + 1
    /\ Returned(ErrorFlow, e)
    /\ UNCHANGED <<tx, retErr, calls, out, callerVars, outsideProc>>

\* The end of the statement list
ExecEnd ==
    /\ pc = "execute"
    /\ Returned(Terminate, None)
    /\ UNCHANGED <<tx, nExec, retErr, calls, out, callerVars, outsideProc>>

Execute ==
    \/ \E p \in Paths, records \in ExecRecords : ExecUpdate(p, records)
    \/ \E p \in Paths : ExecCreate(p)
    \/ \E ok \in BOOLEAN : ExecCommit(ok)
    \/ ExecRollback
    \/ ExecSelect
    \/ ExecExit
    \/ \E e \in {PlainError, ForcedExit} : ExecError(e)
    \/ ExecEnd

--------------------------------------------------------------------------
(* Run: one-shot execution (lib/action/run.go) *)

\* Outside the shell
NoShell ==
    [lines |-> <<>>, term |-> FALSE, prompt |-> "normal", last |-> "none",
     saved |-> <<>>]

\* No --out file
NoArgs == [parseOK |-> TRUE, outfile |-> FALSE, outExisted |-> FALSE,
           createFails |-> FALSE]
NoOut == [exists |-> FALSE, size |-> 0, open |-> FALSE, deferred |-> FALSE]

\* Run's deferred calls start: the close of the output file comes first
\* when it was registered (defers run last in, first out)
RunReturn(e) ==
    /\ retErr' = e
    /\ pc' = IF out.deferred THEN "defer_out" ELSE "defer_rollback"

\* parser.Parse(input, sourceFile)
RunParse ==
    /\ pc = "parse"
    /\ IF args.parseOK
       THEN pc' = "outfile" /\ UNCHANGED retErr
       ELSE RunReturn(SyntaxError)
    /\ UNCHANGED <<tx, nExec, flow, execErr, calls, args, out, shell, outsideProc>>

\* Mutant: an output file that already exists is opened and truncated
RunOutfile_Overwrite ==
    /\ pc = "outfile"
    /\ IF ~args.outfile
       THEN pc' = "execute" /\ UNCHANGED <<retErr, out>>
       ELSE IF args.createFails
       THEN RunReturn("CreateFailed") /\ UNCHANGED out
       ELSE /\ out' = [out EXCEPT !.exists = TRUE, !.size = 0,
                                  !.open = TRUE, !.deferred = TRUE]
            /\ pc' = "execute"
            /\ UNCHANGED retErr
    /\ UNCHANGED <<tx, nExec, flow, execErr, calls, args, shell, outsideProc>>

\* if 0 < len(outfile) { ... }
RunOutfile ==
    /\ pc = "outfile"
    /\ IF ~args.outfile
       THEN pc' = "execute" /\ UNCHANGED <<retErr, out>>
       ELSE IF out.exists
       THEN RunReturn("FileExists") /\ UNCHANGED out
       ELSE IF args.createFails
       THEN RunReturn("CreateFailed") /\ UNCHANGED out
       ELSE /\ out' = [out EXCEPT !.exists = TRUE, !.size = 0,
                                  !.open = TRUE, !.deferred = TRUE]
            /\ pc' = "execute"
            /\ UNCHANGED retErr
    /\ UNCHANGED <<tx, nExec, flow, execErr, calls, args, shell, outsideProc>>

\* Mutant: the implicit Commit does not look at the error of Execute
RunAfterExecute_CommitOnError(commitOK) ==
    /\ pc = "executed"
    /\ calls' = Append(calls, "Commit")
    /\ tx' = IF commitOK \/ Dirty(tx) = {} THEN Commit(tx) ELSE CommitFailed(tx)
    /\ RunReturn(execErr)
    /\ UNCHANGED <<nExec, flow, execErr, args, out, shell, outsideProc>>

\* Mutant: the implicit Commit does not look at the flow of Execute
RunAfterExecute_CommitOnExit(commitOK) ==
    /\ pc = "executed"
    /\ IF execErr = None
       THEN /\ calls' = Append(calls, "Commit")
            /\ tx' = IF commitOK \/ Dirty(tx) = {}
                     THEN Commit(tx) ELSE CommitFailed(tx)
       ELSE /\ commitOK
            /\ UNCHANGED <<tx, calls>>
    /\ RunReturn(execErr)
    /\ UNCHANGED <<nExec, flow, execErr, args, out, shell, outsideProc>>

\* Mutant: the error of the implicit Commit is returned
RunAfterExecute_ReturnCommitError(commitOK) ==
    /\ pc = "executed"
    /\ IF execErr = None /\ flow = Terminate
       THEN /\ calls' = Append(calls, "Commit")
            /\ tx' = IF commitOK \/ Dirty(tx) = {}
                     THEN Commit(tx) ELSE CommitFailed(tx)
            /\ RunReturn(IF commitOK \/ Dirty(tx) = {}
                         THEN execErr ELSE PlainError)
       ELSE /\ commitOK
            /\ UNCHANGED <<tx, calls>>
            /\ RunReturn(execErr)
    /\ UNCHANGED <<nExec, flow, execErr, args, out, shell, outsideProc>>

\* if err == nil && flow == query.Terminate { Commit }; return err
RunAfterExecute(commitOK) ==
    /\ pc = "executed"
    /\ IF execErr = None /\ flow = Terminate
       THEN /\ calls' = Append(calls, "Commit")
            /\ tx' = IF commitOK \/ Dirty(tx) = {}
                     THEN Commit(tx) ELSE CommitFailed(tx)
       ELSE /\ commitOK
            /\ UNCHANGED <<tx, calls>>
    /\ RunReturn(execErr)
    /\ UNCHANGED <<nExec, flow, execErr, args, out, shell, outsideProc>>

\* Mutant: the output file is closed and stays, empty or not
RunDeferOut_Keep ==
    /\ pc = "defer_out"
    /\ out' = [out EXCEPT !.open = FALSE]
    /\ pc' = "defer_rollback"
    /\ UNCHANGED <<tx, nExec, flow, execErr, retErr, calls, args, shell, outsideProc>>

\* defer: remove the output file when it is still empty, then close it
RunDeferOut ==
    /\ pc = "defer_out"
    /\ out' = [out EXCEPT !.exists = (out.size >= 1), !.open = FALSE]
    /\ pc' = "defer_rollback"
    /\ UNCHANGED <<tx, nExec, flow, execErr, retErr, calls, args, shell, outsideProc>>

\* defer: Rollback, ReleaseResourcesWithErrors, showStats
RunDeferRollback ==
    /\ pc = "defer_rollback"
    /\ tx' = ReleaseResources(Rollback(tx))
    /\ calls' = calls \o <<"Rollback", "Release">>
    /\ pc' = "done"
    /\ UNCHANGED <<nExec, flow, execErr, retErr, args, out, shell, outsideProc>>

\* The other components at rest
IdleLocks ==
    /\ holders = [p \in Procs |-> None]
    /\ acquirer = [p \in Procs |-> [st |-> "idle", mode |-> None, waited |-> 0]]

InitRun ==
    /\ IdleLocks
    /\ IdleCursor
    /\ IdleStatements
    /\ op = IdleOp
    /\ tx = NewTx(<<"r1">>)
    /\ pc = "parse"
    /\ nExec = 0
    /\ flow = None
    /\ execErr = None
    /\ retErr = None
    /\ calls = <<>>
    /\ shell = NoShell
    /\ \E ok \in BOOLEAN, g \in BOOLEAN, e \in BOOLEAN, cf \in BOOLEAN,
          sz \in 0..MaxOutBytes :
          /\ (~g => ~e /\ ~cf)
          /\ (~e => sz = 0)
          /\ args = [parseOK |-> ok, outfile |-> g, outExisted |-> e,
                     createFails |-> cf]
          /\ out = [NoOut EXCEPT !.exists = e, !.size = sz]

NextRun ==
    \/ RunParse
    \/ RunOutfile
    \/ Execute
    \/ \E commitOK \in BOOLEAN : RunAfterExecute(commitOK)
    \/ RunDeferOut
    \/ RunDeferRollback

SpecRun == InitRun /\ [][NextRun]_vars

--------------------------------------------------------------------------
(* LaunchInteractiveShell: the REPL loop (lib/action/run.go).  A line is a  *)
(* sequence of characters.                                                  *)

MaxLines == 2

\* The lines the terminal delivers: empty, blank, a lone semicolon, text,
\* text with a trailing backslash (also followed by white space)
InputLines ==
    { <<>>, <<" ">>, <<";">>, <<"a", ";">>, <<" ", "a">>,
      <<"\\">>, <<"a", "\\">>, <<"a", "\\", " ">> }

EOF == "EOF"
ReadError == "ReadError"

\* strings.TrimRightFunc(line, unicode.IsSpace)
RECURSIVE TrimRight(_)
TrimRight(line) ==
    IF Len(line) = 0 THEN line
    ELSE IF line[Len(line)] = " " THEN TrimRight(SubSeq(line, 1, Len(line) - 1))
    ELSE line

RECURSIVE TrimLeft(_)
TrimLeft(line) ==
    IF Len(line) = 0 THEN line
    ELSE IF line[1] = " " THEN TrimLeft(Tail(line))
    ELSE line

\* strings.TrimSpace
TrimSpace(line) == TrimLeft(TrimRight(line))

\* strings.Join
RECURSIVE Join(_, _)
Join(ls, sep) ==
    IF Len(ls) = 0 THEN <<>>
    ELSE IF Len(ls) = 1 THEN ls[1]
    ELSE ls[1] \o sep \o Join(Tail(ls), sep)

\* saveLines: the buffered lines trimmed, without the empty ones
NotEmpty(line) == Len(line) >= 1
SaveLines(ls) == SelectSeq([i \in 1..Len(ls) |-> TrimSpace(ls[i])], NotEmpty)

\* saveQuery
SaveQuery(ls) == Join(SaveLines(ls), <<" ">>)

\* lines = lines[:0]; query.Terminal.SetPrompt()
ResetLines(what) == [shell EXCEPT !.lines = <<>>, !.prompt = "normal", !.last = what]

\* The shell returns e: the deferred Teardown, then Rollback and release
ShellReturn(e) ==
    /\ retErr' = e
    /\ pc' = "teardown"

\* continue: the results of Execute are local to one pass of the loop
NextPass ==
    /\ pc' = "prompt"
    /\ nExec' = 0
    /\ flow' = None
    /\ execErr' = None
    /\ UNCHANGED retErr

\* Mutant: the Rollback is deferred only once the terminal exists
ShellLaunch_DeferAfterTerminal(fromPipe, termOK) ==
    /\ pc = "launch"
    /\ IF fromPipe
       THEN /\ retErr' = "PipeError"
            /\ pc' = "done"
            /\ UNCHANGED shell
       ELSE IF ~termOK
       THEN /\ retErr' = "TerminalError"
            /\ pc' = "done"
            /\ UNCHANGED shell
       ELSE /\ shell' = [shell EXCEPT !.term = TRUE]
            /\ pc' = "prompt"
            /\ UNCHANGED retErr
    /\ UNCHANGED <<tx, nExec, flow, execErr, calls, args, out, outsideProc>>

\* From the entry to the loop: the pipe check returns before any defer is
\* registered; a terminal that cannot be created returns through the
\* deferred Rollback only
ShellLaunch(fromPipe, termOK) ==
    /\ pc = "launch"
    /\ IF fromPipe
       THEN /\ retErr' = "PipeError"
            /\ pc' = "done"
            /\ UNCHANGED shell
       ELSE IF ~termOK
       THEN /\ retErr' = "TerminalError"
            /\ pc' = "defer_rollback"
            /\ UNCHANGED shell
       ELSE /\ shell' = [shell EXCEPT !.term = TRUE]
            /\ pc' = "prompt"
            /\ UNCHANGED retErr
    /\ UNCHANGED <<tx, nExec, flow, execErr, calls, args, out, outsideProc>>

\* ReadLine returns io.EOF (break) or another error (return e)
ShellReadFails(e) ==
    /\ pc = "prompt"
    /\ shell' = [shell EXCEPT !.last = e]
    /\ ShellReturn(IF e = EOF THEN None ELSE e)
    /\ UNCHANGED <<tx, nExec, flow, execErr, calls, args, out, outsideProc>>

\* Mutant: after a syntax error the buffered lines stay
ShellReadLine_KeepBuffer(input, parseOK) ==
    /\ pc = "prompt"
    /\ LET line == TrimRight(input)
           ls   == Append(shell.lines, line)
           q    == SaveQuery(ls)
       IN  IF Len(shell.lines) < 1 /\ Len(line) < 1
           THEN /\ parseOK
                /\ shell' = [shell EXCEPT !.last = "empty", !.saved = <<>>]
                /\ UNCHANGED <<pc, nExec, flow, execErr>>
           ELSE IF 0 < Len(line) /\ line[Len(line)] = "\\"
           THEN /\ parseOK
                /\ Len(shell.lines) < MaxLines
                /\ shell' = [shell EXCEPT
                                !.lines = Append(@, SubSeq(line, 1, Len(line) - 1)),
                                !.prompt = "continuous",
                                !.last = "buffered",
                                !.saved = <<>>]
                /\ UNCHANGED <<pc, nExec, flow, execErr>>
           ELSE IF Len(q) < 1 \/ q = <<";">>
           THEN /\ parseOK
                /\ shell' = [ResetLines("skipped") EXCEPT !.saved = <<>>]
                /\ UNCHANGED <<pc, nExec, flow, execErr>>
           ELSE IF ~parseOK
           THEN /\ shell' = [shell EXCEPT !.last = "syntax", !.saved = <<q>>]
                /\ UNCHANGED <<pc, nExec, flow, execErr>>
           ELSE /\ shell' = [shell EXCEPT !.lines = ls, !.last = "parsed",
                                          !.saved = <<q>>]
                /\ pc' = "execute"
                /\ nExec' = 0
                /\ flow' = None
                /\ execErr' = None
    /\ UNCHANGED <<tx, retErr, calls, args, out, outsideProc>>

\* One pass of the loop over a line read: lines 115 to 153; saved holds
\* the query the pass has saved to the history of the terminal, if any
ShellReadLine(input, parseOK) ==
    /\ pc = "prompt"
    /\ LET line == TrimRight(input)
           ls   == Append(shell.lines, line)
           q    == SaveQuery(ls)
       IN  IF Len(shell.lines) < 1 /\ Len(line) < 1
           THEN /\ parseOK
                /\ shell' = [shell EXCEPT !.last = "empty", !.saved = <<>>]
                /\ UNCHANGED <<pc, nExec, flow, execErr>>
           ELSE IF 0 < Len(line) /\ line[Len(line)] = "\\"
           THEN /\ parseOK
                /\ Len(shell.lines) < MaxLines
                /\ shell' = [shell EXCEPT
                                !.lines = Append(@, SubSeq(line, 1, Len(line) - 1)),
                                !.prompt = "continuous",
                                !.last = "buffered",
                                !.saved = <<>>]
                /\ UNCHANGED <<pc, nExec, flow, execErr>>
           ELSE IF Len(q) < 1 \/ q = <<";">>
           THEN /\ parseOK
                /\ shell' = [ResetLines("skipped") EXCEPT !.saved = <<>>]
                /\ UNCHANGED <<pc, nExec, flow, execErr>>
           ELSE IF ~parseOK
           THEN /\ shell' = [ResetLines("syntax") EXCEPT !.saved = <<q>>]
                /\ UNCHANGED <<pc, nExec, flow, execErr>>
           ELSE /\ shell' = [shell EXCEPT !.lines = ls, !.last = "parsed",
                                          !.saved = <<q>>]
                /\ pc' = "execute"
                /\ nExec' = 0
                /\ flow' = None
                /\ execErr' = None
    /\ UNCHANGED <<tx, retErr, calls, args, out, outsideProc>>

\* Mutant: an error of Execute other than ForcedExit is answered by Rollback
ShellAfterExecute_RollbackOnError ==
    /\ pc = "executed"
    /\ IF execErr = ForcedExit
       THEN /\ ShellReturn(execErr)
            /\ shell' = [shell EXCEPT !.last = "forced_exit"]
            /\ UNCHANGED <<tx, calls, nExec, flow, execErr>>
       ELSE IF execErr # None
       THEN /\ shell' = ResetLines("error")
            /\ tx' = Rollback(tx)
            /\ calls' = Append(calls, "Rollback")
            /\ NextPass
       ELSE IF flow = Exit
       THEN /\ ShellReturn(None)
            /\ shell' = [shell EXCEPT !.last = "exit"]
            /\ UNCHANGED <<tx, calls, nExec, flow, execErr>>
       ELSE /\ shell' = ResetLines("executed")
            /\ NextPass
            /\ UNCHANGED <<tx, calls>>
    /\ UNCHANGED <<args, out, outsideProc>>

\* Mutant: any error of Execute ends the loop
ShellAfterExecute_BreakOnError ==
    /\ pc = "executed"
    /\ IF execErr # None
       THEN /\ ShellReturn(execErr)
            /\ shell' = [shell EXCEPT !.last = "forced_exit"]
            /\ UNCHANGED <<nExec, flow, execErr>>
       ELSE IF flow = Exit
       THEN /\ ShellReturn(None)
            /\ shell' = [shell EXCEPT !.last = "exit"]
            /\ UNCHANGED <<nExec, flow, execErr>>
       ELSE /\ shell' = ResetLines("executed")
            /\ NextPass
    /\ UNCHANGED <<tx, calls, args, out, outsideProc>>

\* After proc.Execute(statements): lines 155 to 173
ShellAfterExecute ==
    /\ pc = "executed"
    /\ IF execErr = ForcedExit
       THEN /\ ShellReturn(execErr)
            /\ shell' = [shell EXCEPT !.last = "forced_exit"]
            /\ UNCHANGED <<nExec, flow, execErr>>
       ELSE IF execErr # None
       THEN /\ shell' = ResetLines("error")
            /\ NextPass
       ELSE IF flow = Exit
       THEN /\ ShellReturn(None)
            /\ shell' = [shell EXCEPT !.last = "exit"]
            /\ UNCHANGED <<nExec, flow, execErr>>
       ELSE /\ shell' = ResetLines("executed")
            /\ NextPass
    /\ UNCHANGED <<tx, calls, args, out, outsideProc>>

\* defer: query.Terminal.Teardown(); query.Terminal = nil
ShellTeardown ==
    /\ pc = "teardown"
    /\ shell' = [shell EXCEPT !.term = FALSE]
    /\ calls' = Append(calls, "Teardown")
    /\ pc' = "defer_rollback"
    /\ UNCHANGED <<tx, nExec, flow, execErr, retErr, args, out, outsideProc>>

\* defer: Rollback, ReleaseResourcesWithErrors
ShellDeferRollback ==
    /\ pc = "defer_rollback"
    /\ tx' = ReleaseResources(Rollback(tx))
    /\ calls' = calls \o <<"Rollback", "Release">>
    /\ pc' = "done"
    /\ UNCHANGED <<nExec, flow, execErr, retErr, args, out, shell, outsideProc>>

InitShell ==
    /\ IdleLocks
    /\ IdleCursor
    /\ IdleStatements
    /\ op = IdleOp
    /\ tx = NewTx(<<"r1">>)
    /\ pc = "launch"
    /\ nExec = 0
    /\ flow = None
    /\ execErr = None
    /\ retErr = None
    /\ calls = <<>>
    /\ args = NoArgs
    /\ out = NoOut
    /\ shell = NoShell

NextShell ==
    \/ \E fromPipe \in BOOLEAN, termOK \in BOOLEAN : ShellLaunch(fromPipe, termOK)
    \/ \E e \in {EOF, ReadError} : ShellReadFails(e)
    \/ \E input \in InputLines, parseOK \in BOOLEAN : ShellReadLine(input, parseOK)
    \/ Execute
    \/ ShellAfterExecute
    \/ ShellTeardown
    \/ ShellDeferRollback

SpecShell == InitShell /\ [][NextShell]_vars

--------------------------------------------------------------------------
(* The transaction manager over the file layer, one protocol step at a     *)
(* time: statements on views, COMMIT file by file, ROLLBACK.               *)

\* The recordsets a statement can leave in a view: rows in key order, no
\* key twice
TxRecords ==
    {r \in RecordSets(MaxRows) :
        \A i \in 1..(Len(r) - 1) : r[i] = "r1" /\ r[i + 1] = "r2"}

TxIdle == op.phase = "idle"

\* The operation has ended
TxDone(kind, queue, start) ==
    op' = [phase |-> "idle", queue |-> queue, last |-> kind, start |-> start]

\* UPDATE / INSERT / DELETE on a table whose file exists
TxUpdate(p, records) ==
    /\ TxIdle
    /\ tx.disk[p].exists
    /\ tx' = UpdateView(tx, p, records)
    /\ TxDone("update", <<>>, NoStart)
    /\ UNCHANGED outsideTx

\* CREATE TABLE on a path with no file
TxCreate(p) ==
    /\ TxIdle
    /\ ~tx.disk[p].exists
    /\ tx' = CreateTable(tx, p)
    /\ TxDone("create", <<>>, NoStart)
    /\ UNCHANGED outsideTx

\* COMMIT starts: the dirty files are queued in path order
TxCommitBegin ==
    /\ TxIdle
    /\ IF Dirty(tx) = {}
       THEN TxDone("commit", <<>>, tx)
       ELSE op' = [phase |-> "write", queue |-> SortedPaths(Dirty(tx)),
                   last |-> "committing", start |-> tx]
    /\ UNCHANGED <<tx, outsideTx>>

\* Steps 1 and 2 for the file at the head of the queue; a failed or
\* interrupted write leaves a prefix of the encoding in the temp file
TxCommitWrite(ok, written) ==
    /\ op.phase = "write"
    /\ LET p == Head(op.queue)
       IN  IF ok
           THEN /\ tx' = WriteTemp(tx, p)
                /\ op' = [op EXCEPT !.phase = "rename"]
           ELSE /\ written \in Prefixes(Encode(tx.cache[p].records))
                /\ tx' = [tx EXCEPT !.temp[p] = File(written)]
                /\ TxDone("commit_failed", op.queue, op.start)
    /\ UNCHANGED outsideTx

\* Step 3 for the file at the head of the queue; a failed rename changes
\* nothing
TxCommitRename(ok) ==
    /\ op.phase = "rename"
    /\ IF ok
       THEN /\ tx' = RenameTemp(tx, Head(op.queue))
            /\ op' = [op EXCEPT !.phase = "release"]
       ELSE /\ tx' = tx
            /\ TxDone("commit_failed", op.queue, op.start)
    /\ UNCHANGED outsideTx

\* Step 4 for the file at the head of the queue, then the next file
TxCommitRelease ==
    /\ op.phase = "release"
    /\ tx' = ReleaseCommitted(tx, Head(op.queue))
    /\ IF Tail(op.queue) = <<>>
       THEN TxDone("commit", <<>>, op.start)
       ELSE op' = [op EXCEPT !.phase = "write", !.queue = Tail(@)]
    /\ UNCHANGED outsideTx

\* ROLLBACK
TxRollback ==
    /\ TxIdle
    /\ tx' = Rollback(tx)
    /\ TxDone("rollback", <<>>, tx)
    /\ UNCHANGED outsideTx

\* No script is running
NoProc ==
    /\ pc = "idle"
    /\ nExec = 0
    /\ flow = None
    /\ execErr = None
    /\ retErr = None
    /\ calls = <<>>
    /\ args = NoArgs
    /\ out = NoOut
    /\ shell = NoShell

InitTx ==
    /\ IdleLocks
    /\ IdleCursor
    /\ IdleStatements
    /\ NoProc
    /\ op = IdleOp
    /\ tx = NewTx(<<"r1">>)

NextTx ==
    \/ \E p \in Paths, records \in TxRecords : TxUpdate(p, records)
    \/ \E p \in Paths : TxCreate(p)
    \/ TxCommitBegin
    \/ \E ok \in BOOLEAN, written \in Prefixes(Encode(<<"r1", "r2">>)) :
           TxCommitWrite(ok, written)
    \/ \E ok \in BOOLEAN : TxCommitRename(ok)
    \/ TxCommitRelease
    \/ TxRollback

SpecTx == InitTx /\ [][NextTx]_vars

--------------------------------------------------------------------------
(* The FileLock service on one path: processes acquire the advisory lock   *)
(* by bounded polling and hold it until Close or Commit.                   *)

Shared == "shared"
Exclusive == "exclusive"

\* Can q be granted the lock in this mode, given what the others hold
Grantable(q, mode) ==
    \A r \in Procs \ {q} :
        \/ holders[r] = None
        \/ mode = Shared /\ holders[r] = Shared

Waiting(q) == acquirer[q].st = "waiting"

\* NewHandlerForRead (shared), NewHandlerForCreate / NewHandlerForUpdate
\* (exclusive): the process starts polling for the lock
LockRequest(q, mode) ==
    /\ acquirer[q].st = "idle"
    /\ acquirer' = [acquirer EXCEPT ![q] =
                       [st |-> "waiting", mode |-> mode, waited |-> 0]]
    /\ UNCHANGED <<holders, outsideLock>>

\* A poll that finds the lock free for the requested mode
LockAcquire(q) ==
    /\ Waiting(q)
    /\ Grantable(q, acquirer[q].mode)
    /\ holders' = [holders EXCEPT ![q] = acquirer[q].mode]
    /\ acquirer' = [acquirer EXCEPT ![q].st = "holding"]
    /\ UNCHANGED outsideLock

\* A poll that gives up at once
LockTimeout_Early(q) ==
    /\ Waiting(q)
    /\ ~Grantable(q, acquirer[q].mode)
    /\ acquirer' = [acquirer EXCEPT ![q].st = "timeout"]
    /\ UNCHANGED <<holders, outsideLock>>

\* A poll that finds the lock taken when wait_timeout has elapsed: the
\* handler constructor fails with LockTimeout
LockTimeout(q) ==
    /\ Waiting(q)
    /\ ~Grantable(q, acquirer[q].mode)
    /\ acquirer[q].waited >= WaitTimeout
    /\ acquirer' = [acquirer EXCEPT ![q].st = "timeout"]
    /\ UNCHANGED <<holders, outsideLock>>

\* One unit of time passes for every process that is polling; a process
\* whose wait_timeout has elapsed polls before more time passes
LockTick ==
    /\ \E q \in Procs : Waiting(q)
    /\ \A q \in Procs : Waiting(q) => acquirer[q].waited < WaitTimeout
    /\ acquirer' = [q \in Procs |->
                       IF Waiting(q)
                       THEN [acquirer[q] EXCEPT !.waited = @ + 1]
                       ELSE acquirer[q]]
    /\ UNCHANGED <<holders, outsideLock>>

\* Handler.Close, or step 4 of the commit protocol
LockRelease(q) ==
    /\ acquirer[q].st = "holding"
    /\ holders' = [holders EXCEPT ![q] = None]
    /\ acquirer' = [acquirer EXCEPT ![q] =
                       [st |-> "idle", mode |-> None, waited |-> 0]]
    /\ UNCHANGED outsideLock

\* The statement that could not lock the file has failed; the process is
\* free to try again
LockFailed(q) ==
    /\ acquirer[q].st = "timeout"
    /\ acquirer' = [acquirer EXCEPT ![q] =
                       [st |-> "idle", mode |-> None, waited |-> 0]]
    /\ UNCHANGED <<holders, outsideLock>>

InitLock ==
    /\ IdleLocks
    /\ IdleCursor
    /\ IdleStatements
    /\ NoProc
    /\ op = IdleOp
    /\ tx = NewTx(<<"r1">>)

LockPoll(q) == LockAcquire(q) \/ LockTimeout(q)

NextLock ==
    \/ \E q \in Procs, mode \in {Shared, Exclusive} : LockRequest(q, mode)
    \/ \E q \in Procs : LockPoll(q)
    \/ LockTick
    \/ \E q \in Procs : LockRelease(q)
    \/ \E q \in Procs : LockFailed(q)

SpecLock == InitLock /\ [][NextLock]_vars

\* Time passes, and a polling process polls
SpecLockFair ==
    /\ SpecLock
    /\ WF_vars(LockTick)
    /\ \A q \in Procs : WF_vars(LockPoll(q))

--------------------------------------------------------------------------
(* SOURCE: LoadStatementsFromFile reads a statement file under a shared   *)
(* lock. The processes in Readers run it; Writer takes the exclusive lock. *)

Readers == {"p1", "p2"}
Writer == "p3"

outsideSource == <<procVars, txVars, curVars, ctl, varStmt, trigger, flags,
                   flagStmt, call>>

\* return statements, err: with every deferred call run
SourceReturns(q, e, stmts) ==
    source' = [source EXCEPT ![q] =
                  [st |-> "returned", err |-> e, statements |-> stmts]]

\* h.Close()
SourceClose(q) ==
    /\ holders' = [holders EXCEPT ![q] = None]
    /\ acquirer' = [acquirer EXCEPT ![q] =
                       [st |-> "idle", mode |-> None, waited |-> 0]]

\* if !file.Exists(fpath) { return }; file.NewHandlerForRead(fpath) starts
SourceStart(q, exists) ==
    /\ source[q].st = "idle"
    /\ acquirer[q].st = "idle"
    /\ IF ~exists
       THEN /\ SourceReturns(q, "SourceFileNotExist", FALSE)
            /\ UNCHANGED <<holders, acquirer>>
       ELSE /\ source' = [source EXCEPT ![q].st = "acquiring"]
            /\ acquirer' = [acquirer EXCEPT ![q] =
                               [st |-> "waiting", mode |-> Shared, waited |-> 0]]
            /\ UNCHANGED holders
    /\ UNCHANGED outsideSource

\* NewHandlerForRead polls: it gets the shared lock, or it has waited for
\* wait_timeout and fails, and LoadStatementsFromFile returns its error
SourceAcquire(q) ==
    /\ source[q].st = "acquiring"
    /\ IF Grantable(q, Shared)
       THEN /\ holders' = [holders EXCEPT ![q] = Shared]
            /\ acquirer' = [acquirer EXCEPT ![q].st = "holding"]
            /\ source' = [source EXCEPT ![q].st = "reading"]
       ELSE /\ acquirer[q].waited >= WaitTimeout
            /\ acquirer' = [acquirer EXCEPT ![q] =
                               [st |-> "idle", mode |-> None, waited |-> 0]]
            /\ SourceReturns(q, "ReadFile", FALSE)
            /\ UNCHANGED holders
    /\ UNCHANGED outsideSource

\* A read that returns its error with the handler still open
SourceRead_NoClose(q, ok) ==
    /\ source[q].st = "reading"
    /\ IF ok
       THEN /\ source' = [source EXCEPT ![q].st = "parsing"]
            /\ UNCHANGED <<holders, acquirer>>
       ELSE /\ SourceReturns(q, "ReadFile", FALSE)
            /\ UNCHANGED <<holders, acquirer>>
    /\ UNCHANGED outsideSource

\* defer h.Close(); ioutil.ReadAll(h.FileForRead())
SourceRead(q, ok) ==
    /\ source[q].st = "reading"
    /\ IF ok
       THEN /\ source' = [source EXCEPT ![q].st = "parsing"]
            /\ UNCHANGED <<holders, acquirer>>
       ELSE /\ SourceReturns(q, "ReadFile", FALSE)
            /\ SourceClose(q)
    /\ UNCHANGED outsideSource

\* parser.Parse(input, fpath); return statements, err
SourceParse(q, ok) ==
    /\ source[q].st = "parsing"
    /\ SourceReturns(q, IF ok THEN None ELSE SyntaxError, ok)
    /\ SourceClose(q)
    /\ UNCHANGED outsideSource

\* The caller has taken the result; the process may run SOURCE again
SourceTaken(q) ==
    /\ source[q].st = "returned"
    /\ source' = [source EXCEPT ![q] = IdleSource]
    /\ UNCHANGED <<holders, acquirer, outsideSource>>

NextSource ==
    \/ \E q \in Readers, exists \in BOOLEAN : SourceStart(q, exists)
    \/ \E q \in Readers : SourceAcquire(q)
    \/ \E q \in Readers, ok \in BOOLEAN : SourceRead(q, ok)
    \/ \E q \in Readers, ok \in BOOLEAN : SourceParse(q, ok)
    \/ \E q \in Readers : SourceTaken(q)
    \/ LockRequest(Writer, Exclusive)
    \/ LockPoll(Writer)
    \/ LockTick
    \/ LockRelease(Writer)
    \/ LockFailed(Writer)

SpecSource == InitLock /\ [][NextSource]_vars

--------------------------------------------------------------------------
(* Cursors: DECLARE, OPEN, FETCH, CLOSE, DISPOSE and WHILE-IN-CURSOR over  *)
(* the cursor "cur" of the scope.                                          *)

\* Row i of the table the cursor's query selects from: column1, column2
Row(i) == <<Str("", i), Str("str", i)>>

\* The number of columns of the cursor's view
Width == Len(Row(1))

\* The select queries of a cursor: the first n rows, in either order
Queries == [n : 0..MaxCursorRows, desc : BOOLEAN]

\* The result of a select query, in order
Eval(query) ==
    [i \in 1..query.n |-> Row(IF query.desc THEN query.n + 1 - i ELSE i)]

\* The target lists of a FETCH
Targets ==
    { <<"@var1", "@var2">>, <<"@var2", "@var1">>, <<"@var1", "@var3">>,
      <<"@var1">> }

\* The positions of a FETCH
Positions ==
    {[kind |-> "NEXT", n |-> 0], [kind |-> "FIRST", n |-> 0]}
        \cup [kind : {"ABSOLUTE"}, n : 1..(MaxCursorRows + 1)]

IsOpen(c) == c.state \in {"Open", "OpenExhausted"}

\* IS IN RANGE: unknown before the first fetch
IsInRange(c) ==
    IF c.pointer = 0 THEN "UNKNOWN"
    ELSE IF c.pointer <= Len(c.view) THEN "TRUE" ELSE "FALSE"

\* Substituting values into variables one by one; an undefined variable
\* fails
RECURSIVE Substitute(_, _, _)
Substitute(vs, targets, values) ==
    IF targets = <<>> THEN [variables |-> vs, err |-> None]
    ELSE IF Head(targets) \notin DOMAIN vs
         THEN [variables |-> vs, err |-> "UndefinedVariable"]
         ELSE Substitute([vs EXCEPT ![Head(targets)] = Head(values)],
                         Tail(targets), Tail(values))

Reversed(values) == [i \in 1..Len(values) |-> values[Len(values) + 1 - i]]

\* Unpacking with the values in the opposite order
Unpack_Reversed(vs, targets, values) ==
    Substitute(vs, targets, Reversed(values))

\* Unpacking one row into the target variables, by position
Unpack(vs, targets, values) ==
    Substitute(vs, targets, values)

\* The values the targets hold after an unpacking
Held(vs, targets) == [i \in 1..Len(targets) |-> vs[targets[i]]]

\* A fetch past the end that fails
PastEnd_OutOfRange(c, vs, targets, next) ==
    [cursor    |-> [c EXCEPT !.pointer = Len(c.view) + 1,
                             !.state = "OpenExhausted",
                             !.delivered = <<>>, !.onlyNext = FALSE],
     variables |-> vs,
     err       |-> "CursorOutOfRange",
     inRange   |-> FALSE]

\* A fetch past the end: every target becomes Null, the result is
\* not-in-range, the cursor is OpenExhausted
PastEnd(c, vs, targets, next) ==
    LET u == Unpack(vs, targets, [i \in 1..Len(targets) |-> Null])
        counted == next /\ c.onlyNext /\ u.err = None
    IN  [cursor    |-> [c EXCEPT !.pointer = Len(c.view) + 1,
                                 !.state = "OpenExhausted",
                                 !.onlyNext = counted,
                                 !.delivered = IF counted THEN @ ELSE <<>>],
         variables |-> u.variables,
         err       |-> u.err,
         inRange   |-> FALSE]

\* A fetch of the row at idx
InRange(c, vs, targets, idx, next) ==
    LET u == Unpack(vs, targets, c.view[idx])
        counted == next /\ c.onlyNext /\ u.err = None
    IN  [cursor    |-> [c EXCEPT
                          !.pointer = idx,
                          !.state = "Open",
                          !.onlyNext = counted,
                          !.delivered =
                              IF counted
                              THEN Append(@, Held(u.variables, targets))
                              ELSE <<>>],
         variables |-> u.variables,
         err       |-> u.err,
         inRange   |-> u.err = None]

\* The row a FETCH at pos moves the pointer to
Index(c, pos) ==
    CASE pos.kind = "NEXT" -> c.pointer + 1
      [] pos.kind = "FIRST" -> 1
      [] OTHER -> pos.n

\* FETCH: the cursor, the variables, the error and in-range it returns
Fetch(c, vs, pos, targets) ==
    IF ~IsOpen(c)
    THEN [cursor |-> c, variables |-> vs, err |-> "CursorClosed",
          inRange |-> FALSE]
    ELSE IF Len(targets) # Width
    THEN [cursor |-> c, variables |-> vs, err |-> "CursorFetchLength",
          inRange |-> FALSE]
    ELSE LET idx == Index(c, pos)
         IN  IF idx > Len(c.view)
             THEN PastEnd(c, vs, targets, pos.kind = "NEXT")
             ELSE InRange(c, vs, targets, idx, pos.kind = "NEXT")

\* The statement has returned (f, e) to the dispatcher
StmtReturns(f, e) == flow' = f /\ execErr' = e

\* The last FETCH, as asked and as answered
Fetched(pos, targets, r) ==
    fetch' = [pos |-> pos, targets |-> targets, err |-> r.err,
              inRange |-> r.inRange]

\* DECLARE cur CURSOR FOR query: binds the name and the query only
CurDeclare(query) ==
    /\ pc = "stmt"
    /\ cursor.state = "Undeclared"
    /\ cursor' = [NoCursor EXCEPT !.state = "Closed", !.query = query]
    /\ StmtReturns(Terminate, None)
    /\ fetch' = NoFetch
    /\ UNCHANGED <<pc, variables, loop, outsideCur>>

\* OPEN cur: materializes the view of the query
CurOpen ==
    /\ pc = "stmt"
    /\ cursor.state = "Closed"
    /\ cursor' = [cursor EXCEPT !.state = "Open", !.view = Eval(cursor.query),
                                !.pointer = 0, !.delivered = <<>>,
                                !.onlyNext = TRUE]
    /\ StmtReturns(Terminate, None)
    /\ fetch' = NoFetch
    /\ UNCHANGED <<pc, variables, loop, outsideCur>>

\* FETCH pos cur INTO targets
CurFetch(pos, targets) ==
    /\ pc = "stmt"
    /\ cursor.state # "Undeclared"
    /\ LET r == Fetch(cursor, variables, pos, targets)
       IN  /\ cursor' = r.cursor
           /\ variables' = r.variables
           /\ Fetched(pos, targets, r)
           /\ StmtReturns(IF r.err = None THEN Terminate ELSE ErrorFlow, r.err)
    /\ UNCHANGED <<pc, loop, outsideCur>>

\* CLOSE cur: drops the materialized view
CurClose ==
    /\ pc = "stmt"
    /\ IsOpen(cursor)
    /\ cursor' = [cursor EXCEPT !.state = "Closed", !.view = <<>>,
                                !.pointer = 0, !.delivered = <<>>,
                                !.onlyNext = TRUE]
    /\ StmtReturns(Terminate, None)
    /\ fetch' = NoFetch
    /\ UNCHANGED <<pc, variables, loop, outsideCur>>

\* DISPOSE cur, of a closed cursor
CurDispose ==
    /\ pc = "stmt"
    /\ cursor.state = "Closed"
    /\ cursor' = NoCursor
    /\ StmtReturns(Terminate, None)
    /\ fetch' = NoFetch
    /\ UNCHANGED <<pc, variables, loop, outsideCur>>

\* WHILE targets IN cur DO ... END WHILE begins
WhileInCursor(targets) ==
    /\ pc = "stmt"
    /\ cursor.state # "Undeclared"
    /\ loop' = [targets |-> targets, start |-> cursor.pointer, ran |-> <<>>,
                last |-> "begin"]
    /\ pc' = "while_fetch"
    /\ fetch' = NoFetch
    /\ UNCHANGED <<flow, execErr, cursor, variables, outsideCur>>

\* WHILE-IN-CURSOR has returned (f, e)
WhileReturns(f, e) ==
    /\ pc' = "while_done"
    /\ StmtReturns(f, e)

\* The head of an iteration: FETCH NEXT into the targets; an error ends the
\* loop with the error, a fetch past the end ends it with Terminate,
\* otherwise the body runs
WhileFetch ==
    /\ pc = "while_fetch"
    /\ LET pos == [kind |-> "NEXT", n |-> 0]
           r == Fetch(cursor, variables, pos, loop.targets)
       IN  /\ cursor' = r.cursor
           /\ variables' = r.variables
           /\ Fetched(pos, loop.targets, r)
           /\ IF r.err # None
              THEN /\ WhileReturns(ErrorFlow, r.err)
                   /\ loop' = [loop EXCEPT !.last = "fetch_error"]
              ELSE IF ~r.inRange
              THEN /\ WhileReturns(Terminate, None)
                   /\ loop' = [loop EXCEPT !.last = "end"]
              ELSE /\ pc' = "while_body"
                   /\ loop' = [loop EXCEPT
                                 !.ran = Append(@, Held(r.variables,
                                                        loop.targets)),
                                 !.last = "fetched"]
                   /\ UNCHANGED <<flow, execErr>>
    /\ UNCHANGED outsideCur

\* The outcomes of the statements of the body
BodyOutcomes == {"Terminate", "Continue", "Break", "Exit", "Error"}

\* A body whose BREAK goes on with the next row
WhileBody_BreakContinues(outcome) ==
    /\ pc = "while_body"
    /\ loop' = [loop EXCEPT !.last = outcome]
    /\ CASE outcome \in {"Terminate", "Continue", "Break"} ->
                /\ pc' = "while_fetch"
                /\ UNCHANGED <<flow, execErr>>
         [] outcome = "Exit" -> WhileReturns(Exit, None)
         [] OTHER -> WhileReturns(ErrorFlow, PlainError)
    /\ UNCHANGED <<cursor, variables, fetch, outsideCur>>

\* The body of the iteration has run to this outcome
WhileBody(outcome) ==
    /\ pc = "while_body"
    /\ loop' = [loop EXCEPT !.last = outcome]
    /\ CASE outcome \in {"Terminate", "Continue"} ->
                /\ pc' = "while_fetch"
                /\ UNCHANGED <<flow, execErr>>
         [] outcome = "Break" -> WhileReturns(Terminate, None)
         [] outcome = "Exit" -> WhileReturns(Exit, None)
         [] OTHER -> WhileReturns(ErrorFlow, PlainError)
    /\ UNCHANGED <<cursor, variables, fetch, outsideCur>>

\* The dispatcher goes on to the next statement
WhileDone ==
    /\ pc = "while_done"
    /\ flow # Exit
    /\ pc' = "stmt"
    /\ loop' = NoLoop
    /\ fetch' = NoFetch
    /\ UNCHANGED <<flow, execErr, cursor, variables, outsideCur>>

InitCursor ==
    /\ IdleLocks
    /\ IdleCursor
    /\ IdleStatements
    /\ op = IdleOp
    /\ tx = NewTx(<<"r1">>)
    /\ pc = "stmt"
    /\ nExec = 0
    /\ flow = None
    /\ execErr = None
    /\ retErr = None
    /\ calls = <<>>
    /\ args = NoArgs
    /\ out = NoOut
    /\ shell = NoShell

NextCursor ==
    \/ \E query \in Queries : CurDeclare(query)
    \/ CurOpen
    \/ \E pos \in Positions, targets \in Targets : CurFetch(pos, targets)
    \/ CurClose
    \/ CurDispose
    \/ \E targets \in Targets : WhileInCursor(targets)
    \/ WhileFetch
    \/ \E outcome \in BodyOutcomes : WhileBody(outcome)
    \/ WhileDone

SpecCursor == InitCursor /\ [][NextCursor]_vars

--------------------------------------------------------------------------
(* Control flow of the procedure runtime: WHILE and IF / ELSEIF / ELSE.    *)
(* A condition is given by the value it evaluates to; the statements of a  *)
(* loop body or of a branch by the flow they return. A body ends with a    *)
(* PRINT that runs when no earlier statement of the body left it.          *)

\* What a condition evaluates to: a ternary, or an error of the evaluation
CondValues == {"TRUE", "FALSE", "UNKNOWN", "ERROR"}

\* The control-flow statement has returned (f, e)
CtlReturns(f, e) ==
    /\ pc' = "returned"
    /\ flow' = f
    /\ execErr' = e

\* WHILE condition DO ... END WHILE begins
While ==
    /\ pc = "stmt"
    /\ ctl' = [NoCtl EXCEPT !.stmt = "while", !.last = "begin"]
    /\ pc' = "while_cond"
    /\ UNCHANGED <<flow, execErr, outsideControl>>

\* The head of an iteration: the condition is evaluated; the body runs when
\* it is TRUE, an error ends the loop with the error, anything else ends it
\* with Terminate
WhileCondition(value) ==
    /\ pc = "while_cond"
    /\ value = "TRUE" => ctl.iter < MaxIter
    /\ CASE value = "TRUE" ->
                /\ ctl' = [ctl EXCEPT !.cond = value, !.evals = @ + 1,
                                      !.iter = @ + 1]
                /\ pc' = "while_stmts"
                /\ UNCHANGED <<flow, execErr>>
         [] value = "ERROR" ->
                /\ ctl' = [ctl EXCEPT !.cond = value, !.evals = @ + 1]
                /\ CtlReturns(ErrorFlow, PlainError)
         [] OTHER ->
                /\ ctl' = [ctl EXCEPT !.cond = value, !.evals = @ + 1]
                /\ CtlReturns(Terminate, None)
    /\ UNCHANGED outsideControl

\* A body whose BREAK and CONTINUE are handed to the caller of the loop
WhileStatements_Escape(outcome) ==
    /\ pc = "while_stmts"
    /\ CASE outcome = "Terminate" ->
                /\ ctl' = [ctl EXCEPT !.last = outcome,
                                      !.ran = Append(@, ctl.iter)]
                /\ pc' = "while_cond"
                /\ UNCHANGED <<flow, execErr>>
         [] outcome = "Error" ->
                /\ ctl' = [ctl EXCEPT !.last = outcome]
                /\ CtlReturns(ErrorFlow, PlainError)
         [] OTHER ->
                /\ ctl' = [ctl EXCEPT !.last = outcome]
                /\ CtlReturns(outcome, None)
    /\ UNCHANGED outsideControl

\* The statements of the body have returned this flow: the loop consumes
\* CONTINUE and BREAK and passes EXIT and errors on
WhileStatements(outcome) ==
    /\ pc = "while_stmts"
    /\ CASE outcome = "Terminate" ->
                /\ ctl' = [ctl EXCEPT !.last = outcome,
                                      !.ran = Append(@, ctl.iter)]
                /\ pc' = "while_cond"
                /\ UNCHANGED <<flow, execErr>>
         [] outcome = "Continue" ->
                /\ ctl' = [ctl EXCEPT !.last = outcome]
                /\ pc' = "while_cond"
                /\ UNCHANGED <<flow, execErr>>
         [] outcome = "Break" ->
                /\ ctl' = [ctl EXCEPT !.last = outcome]
                /\ CtlReturns(Terminate, None)
         [] outcome = "Exit" ->
                /\ ctl' = [ctl EXCEPT !.last = outcome]
                /\ CtlReturns(Exit, None)
         [] OTHER ->
                /\ ctl' = [ctl EXCEPT !.last = outcome]
                /\ CtlReturns(ErrorFlow, PlainError)
    /\ UNCHANGED outsideControl

\* The IF statements: the conditions of IF and of each ELSEIF, with or
\* without ELSE
IfStmts ==
    [conds : UNION {[1..k -> CondValues] : k \in 1..(MaxElseIf + 1)},
     hasElse : BOOLEAN]

\* IF ... begins
IfStmt(stmt) ==
    /\ pc = "stmt"
    /\ ctl' = [NoCtl EXCEPT !.stmt = "if", !.conds = stmt.conds,
                            !.hasElse = stmt.hasElse, !.last = "begin"]
    /\ pc' = "if_cond"
    /\ UNCHANGED <<flow, execErr, outsideControl>>

\* The flows the statements of a branch return
BranchFlows == {Terminate, "Continue", "Break", Exit}

\* An IF that takes UNKNOWN for TRUE
IfCondition_Unknown(f) ==
    /\ pc = "if_cond"
    /\ ctl.evals < Len(ctl.conds)
    /\ LET k == ctl.evals + 1
           value == ctl.conds[k]
       IN  CASE value \in {"TRUE", "UNKNOWN"} ->
                    /\ ctl' = [ctl EXCEPT !.evals = k, !.cond = value,
                                          !.ran = Append(@, k),
                                          !.last = "branch"]
                    /\ CtlReturns(f, None)
             [] value = "ERROR" ->
                    /\ ctl' = [ctl EXCEPT !.evals = k, !.cond = value,
                                          !.last = "error"]
                    /\ CtlReturns(ErrorFlow, PlainError)
             [] OTHER ->
                    /\ ctl' = [ctl EXCEPT !.evals = k, !.cond = value]
                    /\ UNCHANGED <<pc, flow, execErr>>
    /\ UNCHANGED outsideControl

\* The next condition of the chain is evaluated: TRUE runs its branch and
\* the statement returns the flow of the branch, an error aborts the
\* statement, anything else goes on to the next condition
IfCondition(f) ==
    /\ pc = "if_cond"
    /\ ctl.evals < Len(ctl.conds)
    /\ LET k == ctl.evals + 1
           value == ctl.conds[k]
       IN  CASE value = "TRUE" ->
                    /\ ctl' = [ctl EXCEPT !.evals = k, !.cond = value,
                                          !.ran = Append(@, k),
                                          !.last = "branch"]
                    /\ CtlReturns(f, None)
             [] value = "ERROR" ->
                    /\ ctl' = [ctl EXCEPT !.evals = k, !.cond = value,
                                          !.last = "error"]
                    /\ CtlReturns(ErrorFlow, PlainError)
             [] OTHER ->
                    /\ ctl' = [ctl EXCEPT !.evals = k, !.cond = value]
                    /\ UNCHANGED <<pc, flow, execErr>>
    /\ UNCHANGED outsideControl

\* No condition was TRUE: the ELSE branch runs when there is one
IfElse(f) ==
    /\ pc = "if_cond"
    /\ ctl.evals = Len(ctl.conds)
    /\ IF ctl.hasElse
       THEN /\ ctl' = [ctl EXCEPT !.ran = Append(@, Len(ctl.conds) + 1),
                                  !.last = "else"]
            /\ CtlReturns(f, None)
       ELSE /\ f = Terminate
            /\ ctl' = [ctl EXCEPT !.last = "nothing"]
            /\ CtlReturns(Terminate, None)
    /\ UNCHANGED outsideControl

\* The dispatcher goes on to the next statement
CtlNext ==
    /\ pc = "returned"
    /\ pc' = "stmt"
    /\ ctl' = NoCtl
    /\ UNCHANGED <<flow, execErr, outsideControl>>

InitControl ==
    /\ IdleLocks
    /\ IdleCursor
    /\ IdleStatements
    /\ op = IdleOp
    /\ tx = NewTx(<<"r1">>)
    /\ pc = "stmt"
    /\ nExec = 0
    /\ flow = None
    /\ execErr = None
    /\ retErr = None
    /\ calls = <<>>
    /\ args = NoArgs
    /\ out = NoOut
    /\ shell = NoShell

NextControl ==
    \/ While
    \/ \E value \in CondValues : WhileCondition(value)
    \/ \E outcome \in BodyOutcomes : WhileStatements(outcome)
    \/ \E stmt \in IfStmts : IfStmt(stmt)
    \/ \E f \in BranchFlows : IfCondition(f)
    \/ \E f \in BranchFlows : IfElse(f)
    \/ CtlNext

SpecControl == InitControl /\ [][NextControl]_vars

--------------------------------------------------------------------------
(* Variable statements on one scope frame: DECLARE / VAR, the substitution *)
(* @v := value, and DISPOSE.                                               *)

VarNames == {"@var1", "@var4", "@var9"}
VarValues == {Null, Str("", 1)}

\* The frame with name bound to value
Bound(vs, name, value) ==
    [v \in DOMAIN vs \cup {name} |-> IF v = name THEN value ELSE vs[v]]

\* The frame without name
Unbound(vs, name) == [v \in DOMAIN vs \ {name} |-> vs[v]]

\* The variable statement has run
VarStmtDone(kind, name, value, e) ==
    /\ varStmt' = [kind |-> kind, name |-> name, value |-> value, err |-> e,
                   prev |-> [kind |-> varStmt.kind, name |-> varStmt.name,
                             err |-> varStmt.err]]
    /\ StmtReturns(IF e = None THEN Terminate ELSE ErrorFlow, e)

\* A declaration that overwrites a declared variable
VarDeclare_Overwrite(name, value) ==
    /\ pc = "stmt"
    /\ variables' = Bound(variables, name, value)
    /\ VarStmtDone("declare", name, value, None)
    /\ UNCHANGED outsideVariables

\* DECLARE name := value: fails when the frame has the name
VarDeclare(name, value) ==
    /\ pc = "stmt"
    /\ IF name \in DOMAIN variables
       THEN /\ variables' = variables
            /\ VarStmtDone("declare", name, value, "Redeclared")
       ELSE /\ variables' = Bound(variables, name, value)
            /\ VarStmtDone("declare", name, value, None)
    /\ UNCHANGED outsideVariables

\* name := value: fails when the name is not declared
VarSubstitute(name, value) ==
    /\ pc = "stmt"
    /\ LET u == Substitute(variables, <<name>>, <<value>>)
       IN  /\ variables' = u.variables
           /\ VarStmtDone("substitute", name, value, u.err)
    /\ UNCHANGED outsideVariables

\* DISPOSE name: fails when the name is not declared
VarDispose(name) ==
    /\ pc = "stmt"
    /\ IF name \in DOMAIN variables
       THEN /\ variables' = Unbound(variables, name)
            /\ VarStmtDone("dispose", name, Null, None)
       ELSE /\ variables' = variables
            /\ VarStmtDone("dispose", name, Null, "UndefinedVariable")
    /\ UNCHANGED outsideVariables

\* A new procedure: the frame is empty
InitVariables ==
    /\ IdleLocks
    /\ IdleStatements
    /\ cursor = NoCursor
    /\ fetch = NoFetch
    /\ loop = NoLoop
    /\ variables = [v \in {} |-> Null]
    /\ op = IdleOp
    /\ tx = NewTx(<<"r1">>)
    /\ pc = "stmt"
    /\ nExec = 0
    /\ flow = None
    /\ execErr = None
    /\ retErr = None
    /\ calls = <<>>
    /\ args = NoArgs
    /\ out = NoOut
    /\ shell = NoShell

NextVariables ==
    \/ \E name \in VarNames, value \in VarValues : VarDeclare(name, value)
    \/ \E name \in VarNames, value \in VarValues : VarSubstitute(name, value)
    \/ \E name \in VarNames : VarDispose(name)

SpecVariables == InitVariables /\ [][NextVariables]_vars

--------------------------------------------------------------------------
(* TRIGGER ERROR [code] [message] *)

\* The error code of an application error when the user gives none
DefaultCode == 1

\* The codes and the messages of the TRIGGER ERROR statements
TriggerCodes == 0..MaxCode \cup {200}
TriggerMessages ==
    {NoLiteral, StringLiteral(<<"u", "s", "e", "r">>), StringLiteral(<<"7">>)}
        \cup {IntegerLiteral(n) : n \in TriggerCodes}

\* value.ToString of the message
MessageText(message) ==
    IF message.type = "integer" THEN Itoa(message.n) ELSE message.text

\* An error that takes a lone integer for the message
UserTriggeredError_NoCode(message, code) ==
    [code |-> IF code = NoCode THEN DefaultCode ELSE code,
     message |-> MessageText(message)]

\* The error TRIGGER ERROR raises: an integer given alone is the code
UserTriggeredError(message, code) ==
    IF message.type = "integer" /\ code = NoCode
    THEN [code |-> message.n, message |-> <<>>]
    ELSE [code |-> IF code = NoCode THEN DefaultCode ELSE code,
          message |-> MessageText(message)]

\* TRIGGER ERROR: the statement fails with the user's error
TriggerError(message, code) ==
    /\ pc = "stmt"
    /\ trigger' = [message |-> message, code |-> code, raised |-> TRUE,
                   err |-> UserTriggeredError(message, code)]
    /\ pc' = "returned"
    /\ StmtReturns(ErrorFlow, "Trigger")
    /\ UNCHANGED outsideTrigger

\* The caller has taken the error; the next statement, if any
TriggerTaken ==
    /\ pc = "returned"
    /\ pc' = "stmt"
    /\ UNCHANGED <<flow, execErr, trigger, outsideTrigger>>

InitTrigger ==
    /\ IdleLocks
    /\ IdleCursor
    /\ IdleStatements
    /\ op = IdleOp
    /\ tx = NewTx(<<"r1">>)
    /\ pc = "stmt"
    /\ nExec = 0
    /\ flow = None
    /\ execErr = None
    /\ retErr = None
    /\ calls = <<>>
    /\ args = NoArgs
    /\ out = NoOut
    /\ shell = NoShell

NextTrigger ==
    \/ \E message \in TriggerMessages, code \in TriggerCodes \cup {NoCode} :
           TriggerError(message, code)
    \/ TriggerTaken

SpecTrigger == InitTrigger /\ [][NextTrigger]_vars

--------------------------------------------------------------------------
(* SET @@flag TO value *)

\* strconv.Atoi of a text of decimal digits
IsDigits(text) ==
    /\ text # <<>>
    /\ \A i \in 1..Len(text) : \E d \in 1..10 : DigitChars[d] = text[i]
DigitOf(ch) == (CHOOSE d \in 1..10 : DigitChars[d] = ch) - 1
RECURSIVE Atoi(_)
Atoi(text) ==
    IF text = <<>> THEN 0
    ELSE 10 * Atoi(SubSeq(text, 1, Len(text) - 1)) + DigitOf(text[Len(text)])

\* strconv.ParseBool
TrueTexts ==
    { <<"1">>, <<"t">>, <<"T">>, <<"T", "R", "U", "E">>,
      <<"t", "r", "u", "e">>, <<"T", "r", "u", "e">> }
FalseTexts ==
    { <<"0">>, <<"f">>, <<"F">>, <<"F", "A", "L", "S", "E">>,
      <<"f", "a", "l", "s", "e">>, <<"F", "a", "l", "s", "e">> }

\* The conversions: Null when the value does not convert
ToStr(p) ==
    CASE p.type = "string" -> p
      [] p.type \in {"integer", "float"} -> NewString(Itoa(p.n))
      [] OTHER -> NullValue
ToBoolean(p) ==
    CASE p.type = "boolean" -> p
      [] p.type = "string" /\ p.text \in TrueTexts -> NewBoolean(TRUE)
      [] p.type = "string" /\ p.text \in FalseTexts -> NewBoolean(FALSE)
      [] p.type \in {"integer", "float", "ternary"} /\ p.n \in {0, 1} ->
             NewBoolean(p.n = 1)
      [] OTHER -> NullValue
ToFloat(p) ==
    CASE p.type = "float" -> p
      [] p.type = "integer" -> NewFloat(p.n)
      [] p.type = "string" /\ IsDigits(p.text) -> NewFloat(Atoi(p.text))
      [] OTHER -> NullValue
ToInteger(p) ==
    CASE p.type = "integer" -> p
      [] p.type = "float" -> NewInteger(p.n)
      [] p.type = "string" /\ IsDigits(p.text) -> NewInteger(Atoi(p.text))
      [] OTHER -> NullValue

\* The names of the flags, as the statement may write them
StringFlags == {"@@LINE_BREAK"}
BooleanFlags == {"@@NO_HEADER"}
KnownFlags == StringFlags \cup BooleanFlags \cup {"@@WAIT_TIMEOUT", "@@CPU"}
FlagNames == KnownFlags \cup {"@@cpu", "@@invalid"}

\* strings.ToUpper of a flag name
ToUpper(name) ==
    CASE name = "@@cpu" -> "@@CPU"
      [] name = "@@datetime_format" -> "@@DATETIME_FORMAT"
      [] name = "@@invalid" -> "@@INVALID"
      [] OTHER -> name

\* The values of the statement: an identifier is its literal as a string,
\* an expression is the value it evaluates to, or fails to evaluate
FlagExprs ==
    [kind : {"identifier"},
     value : {NewString(<<"C", "R", "L", "F">>), NewString(<<"t", "r", "u", "e">>)}]
      \cup [kind : {"expression"},
            value : {NullValue, NewString(<<"L", "F">>), NewString(<<"x">>),
                     NewString(<<"2">>), NewInteger(0), NewInteger(1),
                     NewFloat(2), NewBoolean(TRUE), NewTernary(-1),
                     NewTernary(0)}]
      \cup [kind : {"error"}, value : {NullValue}]

\* The line breaks flags.SetLineBreak accepts
LineBreaks == { <<"L", "F">>, <<"C", "R">>, <<"C", "R", "L", "F">> }

\* The first switch: the value converted to the type of the flag
FlagValue(name, p) ==
    CASE ToUpper(name) \in StringFlags -> ToStr(p)
      [] ToUpper(name) \in BooleanFlags -> ToBoolean(p)
      [] ToUpper(name) = "@@WAIT_TIMEOUT" -> ToFloat(p)
      [] ToUpper(name) = "@@CPU" -> ToInteger(p)

\* The second switch: the setter of the flag, which may refuse the value
FlagSet(fl, name, p) ==
    CASE ToUpper(name) = "@@LINE_BREAK" ->
             IF p.text \in LineBreaks
             THEN [flags |-> [fl EXCEPT !.LINE_BREAK = p.text], err |-> None]
             ELSE [flags |-> fl, err |-> "InvalidFlagValue"]
      [] ToUpper(name) = "@@NO_HEADER" ->
             [flags |-> [fl EXCEPT !.NO_HEADER = (p.n = 1)], err |-> None]
      [] ToUpper(name) = "@@WAIT_TIMEOUT" ->
             [flags |-> [fl EXCEPT !.WAIT_TIMEOUT = p.n], err |-> None]
      [] ToUpper(name) = "@@CPU" ->
             [flags |-> [fl EXCEPT !.CPU = p.n], err |-> None]

\* A SetFlag that hands a Null to the setter
SetFlagResult_NullSet(fl, name, expr) ==
    IF expr.kind = "error" THEN [flags |-> fl, err |-> "Evaluate"]
    ELSE IF ToUpper(name) \notin KnownFlags
         THEN [flags |-> fl, err |-> "InvalidFlagName"]
         ELSE FlagSet(fl, name, FlagValue(name, expr.value))

\* SetFlag: the flags afterwards and the error returned
SetFlagResult(fl, name, expr) ==
    IF expr.kind = "error" THEN [flags |-> fl, err |-> "Evaluate"]
    ELSE IF ToUpper(name) \notin KnownFlags
         THEN [flags |-> fl, err |-> "InvalidFlagName"]
         ELSE IF IsNull(FlagValue(name, expr.value))
              THEN [flags |-> fl, err |-> "FlagValueNotAllowedFormat"]
              ELSE FlagSet(fl, name, FlagValue(name, expr.value))

\* SET name TO expr
SetFlag(name, expr) ==
    /\ pc = "stmt"
    /\ LET r == SetFlagResult(flags, name, expr)
       IN  /\ flags' = r.flags
           /\ flagStmt' = [name |-> name, kind |-> expr.kind,
                           value |-> expr.value, err |-> r.err]
           /\ StmtReturns(IF r.err = None THEN Terminate ELSE ErrorFlow, r.err)
    /\ UNCHANGED outsideFlags

InitFlags ==
    /\ IdleLocks
    /\ IdleCursor
    /\ IdleStatements
    /\ op = IdleOp
    /\ tx = NewTx(<<"r1">>)
    /\ pc = "stmt"
    /\ nExec = 0
    /\ flow = None
    /\ execErr = None
    /\ retErr = None
    /\ calls = <<>>
    /\ args = NoArgs
    /\ out = NoOut
    /\ shell = NoShell

NextFlags == \E name \in FlagNames, expr \in FlagExprs : SetFlag(name, expr)

SpecFlags == InitFlags /\ [][NextFlags]_vars

--------------------------------------------------------------------------
(* REMOVE value FROM @@flag *)

\* The flags REMOVE is asked for, and the values it is given: an expression
\* that evaluates, or one that fails to
RemoveNames ==
    {"@@DATETIME_FORMAT", "@@datetime_format", "@@LINE_BREAK", "@@cpu",
     "@@invalid"}
Formats == { <<"f">>, <<"g">>, <<"1">> }
RemoveExprs ==
    [kind : {"expression"},
     value : {NewInteger(n) : n \in -1..MaxFormats}
                 \cup {NewString(f) : f \in Formats \cup { <<"x">> }}
                 \cup {NewFloat(1), NullValue, NewBoolean(TRUE)}]
      \cup [kind : {"error"}, value : {NullValue}]

\* append(list[:idx], list[idx+1:]...)
RemoveAt(list, idx) ==
    SubSeq(list, 1, idx) \o SubSeq(list, idx + 2, Len(list))

\* The formats that are not val, in their order
RemoveEqual(list, val) ==
    LET Differs(v) == v # val IN SelectSeq(list, Differs)

\* An index that counts the elements from one
RemoveFlagResult_OneBased(fl, name, expr) ==
    IF expr.kind = "error" THEN [flags |-> fl, err |-> "Evaluate"]
    ELSE IF ToUpper(name) = "@@DATETIME_FORMAT"
    THEN IF ~IsNull(ToInteger(expr.value))
         THEN LET idx == ToInteger(expr.value).n
              IN  IF 0 < idx /\ idx <= Len(fl.DATETIME_FORMAT)
                  THEN [flags |-> [fl EXCEPT !.DATETIME_FORMAT =
                                                 RemoveAt(@, idx - 1)],
                        err |-> None]
                  ELSE [flags |-> fl, err |-> None]
         ELSE IF ~IsNull(ToStr(expr.value))
         THEN [flags |-> [fl EXCEPT !.DATETIME_FORMAT =
                                        RemoveEqual(@, ToStr(expr.value).text)],
               err |-> None]
         ELSE [flags |-> fl, err |-> "InvalidFlagValueToBeRemoved"]
    ELSE IF ToUpper(name) \in KnownFlags
    THEN [flags |-> fl, err |-> "RemoveFlagNotSupportedName"]
    ELSE [flags |-> fl, err |-> "InvalidFlagName"]

\* RemoveFlagElement: the flags afterwards and the error returned
RemoveFlagResult(fl, name, expr) ==
    IF expr.kind = "error" THEN [flags |-> fl, err |-> "Evaluate"]
    ELSE IF ToUpper(name) = "@@DATETIME_FORMAT"
    THEN IF ~IsNull(ToInteger(expr.value))
         THEN LET idx == ToInteger(expr.value).n
              IN  IF -1 < idx /\ idx < Len(fl.DATETIME_FORMAT)
                  THEN [flags |-> [fl EXCEPT !.DATETIME_FORMAT =
                                                 RemoveAt(@, idx)],
                        err |-> None]
                  ELSE [flags |-> fl, err |-> None]
         ELSE IF ~IsNull(ToStr(expr.value))
         THEN [flags |-> [fl EXCEPT !.DATETIME_FORMAT =
                                        RemoveEqual(@, ToStr(expr.value).text)],
               err |-> None]
         ELSE [flags |-> fl, err |-> "InvalidFlagValueToBeRemoved"]
    ELSE IF ToUpper(name) \in KnownFlags
    THEN [flags |-> fl, err |-> "RemoveFlagNotSupportedName"]
    ELSE [flags |-> fl, err |-> "InvalidFlagName"]

\* REMOVE expr FROM name
RemoveFlagElement(name, expr) ==
    /\ pc = "stmt"
    /\ LET r == RemoveFlagResult(flags, name, expr)
       IN  /\ flags' = r.flags
           /\ flagStmt' = [name |-> name, kind |-> expr.kind,
                           value |-> expr.value, err |-> r.err]
           /\ StmtReturns(IF r.err = None THEN Terminate ELSE ErrorFlow, r.err)
    /\ UNCHANGED outsideFlags

\* The lists of formats a session may hold: no format twice
FormatLists ==
    {l \in UNION {[1..k -> Formats] : k \in 0..MaxFormats} :
         \A i, j \in 1..Len(l) : l[i] = l[j] => i = j}

InitRemove ==
    /\ IdleLocks
    /\ IdleCursor
    /\ ctl = NoCtl
    /\ varStmt = NoVarStmt
    /\ trigger = NoTrigger
    /\ flagStmt = NoFlagStmt
    /\ call = NoCall
    /\ source = NoSource
    /\ \E l \in FormatLists : flags = [NewFlags EXCEPT !.DATETIME_FORMAT = l]
    /\ op = IdleOp
    /\ tx = NewTx(<<"r1">>)
    /\ pc = "stmt"
    /\ nExec = 0
    /\ flow = None
    /\ execErr = None
    /\ retErr = None
    /\ calls = <<>>
    /\ args = NoArgs
    /\ out = NoOut
    /\ shell = NoShell

NextRemove ==
    \E name \in RemoveNames, expr \in RemoveExprs : RemoveFlagElement(name, expr)

SpecRemove == InitRemove /\ [][NextRemove]_vars

--------------------------------------------------------------------------
(* The built-in functions: what a call returns *)

\* A function returns a value and no error, or no value and an error; a
\* runtime panic ends the call with neither
Ok(v) == [value |-> v, err |-> None]
Fail(e) == [value |-> Nil, err |-> e]
Panic == Fail("panic")

\* The runes of the texts: ASCII letters and digits, U+65E5 (three bytes in
\* UTF-8, two in Shift_JIS, two columns wide), U+0000
Wide == {"u65E5"}
NUL == "u0000"
Letters == {"a", "u65E5"}

\* The texts of at most n letters
Texts(n) == UNION {[1..k -> Letters] : k \in 0..n}

\* text.RuneByteSize, cmd.RuneWidth
RuneByteSize(r, enc) ==
    IF r \in Wide THEN (IF enc = "UTF8" THEN 3 ELSE 2) ELSE 1
RuneWidth(r) == IF r \in Wide THEN 2 ELSE IF r = NUL THEN 0 ELSE 1

\* text.ByteSize, cmd.TextWidth
RECURSIVE ByteSize(_, _)
ByteSize(str, enc) ==
    IF str = <<>> THEN 0
    ELSE RuneByteSize(Head(str), enc) + ByteSize(Tail(str), enc)
RECURSIVE TextWidth(_)
TextWidth(str) ==
    IF str = <<>> THEN 0 ELSE RuneWidth(Head(str)) + TextWidth(Tail(str))

\* The length of a text in a padding type
StrLen(str, padType, enc) ==
    CASE padType = "LEN" -> Len(str)
      [] padType = "BYTE" -> ByteSize(str, enc)
      [] padType = "WIDTH" -> TextWidth(str)

\* strings.ToUpper of the texts the calls give
UpperRune(r) ==
    CASE r = "b" -> "B"
      [] r = "y" -> "Y"
      [] r = "t" -> "T"
      [] r = "e" -> "E"
      [] OTHER -> r
UpperText(text) == [i \in 1..Len(text) |-> UpperRune(text[i])]

\* PaddingType(strings.ToUpper(t)): None when it is not one of the three
PaddingTypeOf(text) ==
    CASE UpperText(text) = <<"L", "E", "N">> -> "LEN"
      [] UpperText(text) = <<"B", "Y", "T", "E">> -> "BYTE"
      [] UpperText(text) = <<"W", "I", "D", "T", "H">> -> "WIDTH"
      [] OTHER -> None

\* cmd.ParseEncoding: None when it fails
ParseEncoding(text) ==
    CASE UpperText(text) = <<"U", "T", "F", "8">> -> "UTF8"
      [] UpperText(text) = <<"S", "J", "I", "S">> -> "SJIS"
      [] OTHER -> None

\* strings.Repeat, for a count that is not negative
RECURSIVE Repeat(_, _)
Repeat(str, count) == IF count = 0 THEN <<>> ELSE str \o Repeat(str, count - 1)

\* The loop over the runes of the padding: the runes taken when their
\* lengths add up to padLen, an error when they step over it
RECURSIVE FitPadding(_, _, _, _, _, _)
FitPadding(runes, padLen, padType, enc, l, buf) ==
    IF runes = <<>> THEN [padding |-> buf, err |-> None]
    ELSE LET w == IF padType = "BYTE" THEN RuneByteSize(Head(runes), enc)
                  ELSE RuneWidth(Head(runes))
         IN  IF padLen = l + w
             THEN [padding |-> Append(buf, Head(runes)), err |-> None]
             ELSE IF padLen < l + w
                  THEN [padding |-> <<>>, err |-> "FunctionInvalidArgument"]
                  ELSE FitPadding(Tail(runes), padLen, padType, enc, l + w,
                                  Append(buf, Head(runes)))

\* The padded text
Padded(str, padding, direction) ==
    IF direction = "R" THEN str \o padding ELSE padding \o str

\* An empty pad string: padLen / 0 is +Inf, and what int(+Inf) is depends on
\* the processor. A negative count panics in strings.Repeat. A huge count
\* repeats the empty string to the empty string: by runes, the slice of it
\* up to padLen panics or holds zero runes; by bytes and by width, the loop
\* takes nothing.
EmptyPadding(str, padLen, padType, direction) ==
    {Panic} \cup
        IF padType = "LEN"
        THEN {Ok(NewString(Padded(str, [i \in 1..padLen |-> NUL], direction)))}
        ELSE {Ok(NewString(str))}

\* The padding of a text that is shorter than length
Pad(str, length, padstr, padType, enc, direction) ==
    LET strLen == StrLen(str, padType, enc)
        padstrLen == StrLen(padstr, padType, enc)
        padLen == length - strLen
        repeat == (padLen + padstrLen - 1) \div padstrLen
        padding == Repeat(padstr, repeat)
        fit == FitPadding(padding, padLen, padType, enc, 0, <<>>)
    IN  IF padstrLen = 0 THEN EmptyPadding(str, padLen, padType, direction)
        ELSE IF padType = "LEN"
             THEN {Ok(NewString(Padded(str, SubSeq(padding, 1, padLen),
                                       direction)))}
             ELSE IF fit.err # None THEN {Fail(fit.err)}
                  ELSE {Ok(NewString(Padded(str, fit.padding, direction)))}

\* The padding type and the encoding of a call
PadTypeArg(argv) ==
    IF 3 < Len(argv) /\ ~IsNull(ToStr(argv[4]))
    THEN PaddingTypeOf(ToStr(argv[4]).text) ELSE "LEN"
EncodingArg(argv, at) ==
    IF at <= Len(argv) /\ ~IsNull(ToStr(argv[at]))
    THEN ParseEncoding(ToStr(argv[at]).text) ELSE "UTF8"

\* LPAD, RPAD (str, length, padstr [, padType [, encoding]])
execStringsPadding(argv, direction) ==
    IF Len(argv) < 3 \/ 5 < Len(argv) THEN {Fail("FunctionArgumentLength")}
    ELSE IF IsNull(ToStr(argv[1])) THEN {Ok(NullValue)}
    ELSE IF IsNull(ToInteger(argv[2])) THEN {Ok(NullValue)}
    ELSE IF IsNull(ToStr(argv[3])) THEN {Ok(NullValue)}
    ELSE IF PadTypeArg(argv) = None THEN {Fail("FunctionInvalidArgument")}
    ELSE IF EncodingArg(argv, 5) = None THEN {Fail("FunctionInvalidArgument")}
    ELSE IF ToInteger(argv[2]).n
              <= StrLen(ToStr(argv[1]).text, PadTypeArg(argv),
                        EncodingArg(argv, 5))
         THEN {Ok(argv[1])}
         ELSE Pad(ToStr(argv[1]).text, ToInteger(argv[2]).n,
                  ToStr(argv[3]).text, PadTypeArg(argv), EncodingArg(argv, 5),
                  direction)

Lpad(argv) == execStringsPadding(argv, "L")
Rpad(argv) == execStringsPadding(argv, "R")

\* The integers: two's complement, IntBits wide
MinInt == -(2 ^ (IntBits - 1))
MaxInt == (2 ^ (IntBits - 1)) - 1
Wrap(n) == ((n - MinInt) % (2 ^ IntBits)) + MinInt

\* A slice runes[start:end]: panics when the bounds are out of order
Slice(runes, start, end) ==
    IF 0 <= start /\ start <= end /\ end <= Len(runes)
    THEN Ok(NewString(SubSeq(runes, start + 1, end)))
    ELSE Panic

\* The start of the substring: a negative one counts from the end
SubstrStart(strlen, i) == IF i < 0 THEN Wrap(strlen + i) ELSE i

\* The end of the substring: start + sublen, at most strlen
SubstrEnd(strlen, start, sublen) ==
    IF strlen < Wrap(start + sublen) THEN strlen ELSE Wrap(start + sublen)

\* SUBSTR(str, position [, length])
Substr(argv) ==
    IF Len(argv) < 2 \/ 3 < Len(argv) THEN {Fail("FunctionArgumentLength")}
    ELSE IF IsNull(ToStr(argv[1])) THEN {Ok(NullValue)}
    ELSE IF IsNull(ToInteger(argv[2])) THEN {Ok(NullValue)}
    ELSE LET runes == ToStr(argv[1]).text
             strlen == Len(runes)
             start == SubstrStart(strlen, ToInteger(argv[2]).n)
         IN  IF start < 0 \/ strlen <= start THEN {Ok(NullValue)}
             ELSE IF Len(argv) = 3
                  THEN IF IsNull(ToInteger(argv[3])) THEN {Ok(NullValue)}
                       ELSE IF ToInteger(argv[3]).n < 0 THEN {Ok(NullValue)}
                       ELSE {Slice(runes, start,
                                   SubstrEnd(strlen, start,
                                             ToInteger(argv[3]).n))}
                  ELSE {Slice(runes, start, strlen)}

\* rand.Int63n(delta): panics unless delta is positive
Int63n(delta) ==
    IF delta <= 0 THEN {Panic} ELSE {Ok(NewInteger(r)) : r \in 0..(delta - 1)}

\* RAND(), a float of [0, 1) (0 stands for it); RAND(low, high)
Rand(argv) ==
    IF 0 < Len(argv) /\ Len(argv) # 2 THEN {Fail("FunctionArgumentLength")}
    ELSE IF Len(argv) = 0 THEN {Ok(NewFloat(0))}
    ELSE IF IsNull(ToInteger(argv[1])) THEN {Fail("FunctionInvalidArgument")}
    ELSE IF IsNull(ToInteger(argv[2])) THEN {Fail("FunctionInvalidArgument")}
    ELSE LET low == ToInteger(argv[1]).n
             high == ToInteger(argv[2]).n
             delta == Wrap(Wrap(high - low) + 1)
         IN  IF high <= low THEN {Fail("FunctionInvalidArgument")}
             ELSE { IF r.err # None THEN r
                    ELSE Ok(NewInteger(Wrap(r.value.n + low))) :
                    r \in Int63n(delta) }

\* value.ToDatetime: a datetime, or a number as a Unix time
ToDatetime(p) ==
    CASE p.type = "datetime" -> p
      [] p.type \in {"integer", "float"} -> NewDatetime(p.n)
      [] OTHER -> NullValue

\* Primary.Ternary(): 1 TRUE, 0 FALSE, -1 UNKNOWN
TernaryOf(p) ==
    CASE p.type \in {"boolean", "ternary"} -> p.n
      [] p.type \in {"integer", "float"} /\ p.n \in {0, 1} -> p.n
      [] p.type = "string" /\ p.text \in TrueTexts -> 1
      [] p.type = "string" /\ p.text \in FalseTexts -> 0
      [] OTHER -> -1

\* value.Equal: TRUE only for two values that are not Null and are equal
Equal(p, q) == IF ~IsNull(p) /\ ~IsNull(q) /\ p = q THEN 1 ELSE -1

\* An argument converted to the type the function takes
Converted(p, type) ==
    CASE type = "string" -> ToStr(p)
      [] type = "integer" -> ToInteger(p)
      [] type = "float" -> ToFloat(p)
      [] type = "datetime" -> ToDatetime(p)

\* The value a function computes from arguments that are not Null; the model
\* does not compute it
Computed == [type |-> "computed", text |-> <<>>, n |-> 0]
Value == {Ok(Computed)}
ValueOrNull == {Ok(Computed), Ok(NullValue)}

\* A function that converts its arguments before it counts them
execArgs_ConvertFirst(argv, counts, types, outcomes) ==
    IF \E i \in 1..Len(argv) :
           i <= Len(types) /\ IsNull(Converted(argv[i], types[i]))
    THEN {Ok(NullValue)}
    ELSE IF Len(argv) \notin counts THEN {Fail("FunctionArgumentLength")}
    ELSE outcomes

\* The shape of most functions: the count of the arguments is checked, each
\* argument is converted in turn and a Null returns Null, the rest computes
execArgs(argv, counts, types, outcomes) ==
    IF Len(argv) \notin counts THEN {Fail("FunctionArgumentLength")}
    ELSE IF \E i \in 1..Len(argv) : IsNull(Converted(argv[i], types[i]))
         THEN {Ok(NullValue)}
         ELSE outcomes

Coalesce(argv) ==
    IF Len(argv) < 1 THEN {Fail("FunctionArgumentLength")}
    ELSE IF \E i \in 1..Len(argv) : ~IsNull(argv[i])
         THEN {Ok(argv[CHOOSE i \in 1..Len(argv) :
                         /\ ~IsNull(argv[i])
                         /\ \A j \in 1..(i - 1) : IsNull(argv[j])])}
         ELSE {Ok(NullValue)}

If(argv) ==
    IF Len(argv) # 3 THEN {Fail("FunctionArgumentLength")}
    ELSE IF TernaryOf(argv[1]) = 1 THEN {Ok(argv[2])} ELSE {Ok(argv[3])}

Ifnull(argv) ==
    IF Len(argv) # 2 THEN {Fail("FunctionArgumentLength")}
    ELSE IF IsNull(argv[1]) THEN {Ok(argv[2])} ELSE {Ok(argv[1])}

Nullif(argv) ==
    IF Len(argv) # 2 THEN {Fail("FunctionArgumentLength")}
    ELSE IF Equal(argv[1], argv[2]) = 1 THEN {Ok(NullValue)}
         ELSE {Ok(argv[1])}

\* CEIL, FLOOR, ROUND (number [, place])
roundParams(argv) == execArgs(argv, {1, 2}, <<"float", "integer">>, Value)

\* ROUND computes. A float64 is a binary number of Prec significant bits
\* whose least subnormal is 2^-FracBits; it is kept as its count of 2^-FracBits
RECURSIVE Pow2(_)
Pow2(n) == IF n = 0 THEN 1 ELSE 2 * Pow2(n - 1)
RECURSIVE Pow10(_)
Pow10(n) == IF n = 0 THEN 1 ELSE 10 * Pow10(n - 1)
Grid == Pow2(FracBits)
Abs(n) == IF n < 0 THEN 0 - n ELSE n

\* The distance between the float64s around the magnitude a / b
RECURSIVE Ulp(_, _, _)
Ulp(a, b, s) == IF a \div (b * s) < Pow2(Prec) THEN s ELSE Ulp(a, b, 2 * s)

\* The float64 nearest to a / b, the even one of two that are as near
Nearest(a, b) ==
    LET s == Ulp(Abs(a), b, 1)
        q == Abs(a) \div (b * s)
        rest == Abs(a) % (b * s)
        up == 2 * rest > b * s \/ (2 * rest = b * s /\ q % 2 = 1)
        m == IF up THEN (q + 1) * s ELSE q * s
    IN  IF a < 0 THEN 0 - m ELSE m
IsFloat64(k) == Nearest(k, 1) = k

\* The arithmetic of float64: every result is the nearest float64
Mul(x, y) == Nearest(x * y, Grid)
Quo(x, y) == Nearest(x * Grid, y)
Add(x, y) == Nearest(x + y, 1)
MathFloor(x) == (x \div Grid) * Grid
MathCeil(x) == 0 - MathFloor(0 - x)
Half == Grid \div 2
MathPow10(place) ==
    IF place >= 0 THEN Nearest(Pow10(place) * Grid, 1)
    ELSE Nearest(Grid, Pow10(0 - place))

\* A Float that holds the float64 k
NewFloat64(k) == [type |-> "float64", text |-> <<>>, n |-> k]

\* value.ToFloat(args[0]) and its Raw()
IsNumber(p) == p.type = "float64" \/ ~IsNull(ToFloat(p))
Raw(p) ==
    IF p.type = "float64" THEN p.n ELSE Nearest(ToFloat(p).n * Grid, 1)

\* value.ParseFloat64: an Integer for a whole number, a Float otherwise
ParseFloat64(r) ==
    IF r % Grid = 0 THEN NewInteger(r \div Grid) ELSE NewFloat64(r)

\* round: ceil(pow*f - 0.5) / pow below zero, floor(pow*f + 0.5) / pow from
\* zero on
round(f, place) ==
    LET pow == MathPow10(place)
    IN  IF f < 0 THEN Quo(MathCeil(Add(Mul(pow, f), 0 - Half)), pow)
        ELSE Quo(MathFloor(Add(Mul(pow, f), Half)), pow)

\* ROUND(number [, place]): roundParams, then round
Round(argv) ==
    IF Len(argv) < 1 \/ 2 < Len(argv) THEN {Fail("FunctionArgumentLength")}
    ELSE IF ~IsNumber(argv[1]) THEN {Ok(NullValue)}
    ELSE IF Len(argv) = 2 /\ IsNull(ToInteger(argv[2])) THEN {Ok(NullValue)}
    ELSE LET place == IF Len(argv) = 2 THEN ToInteger(argv[2]).n ELSE 0
         IN  {Ok(ParseFloat64(round(Raw(argv[1]), place)))}

execMath1Arg(argv) == execArgs(argv, {1}, <<"float">>, ValueOrNull)
execMath2Args(argv) == execArgs(argv, {2}, <<"float", "float">>, ValueOrNull)

\* The digits of strconv in the bases up to 16, and the value of a digit; a
\* rune that is no digit has a value no base admits
RadixChars == DigitChars \o <<"a", "b", "c", "d", "e", "f">>
RadixDigit(ch) ==
    IF \E d \in 1..Len(RadixChars) : RadixChars[d] = ch
    THEN (CHOOSE d \in 1..Len(RadixChars) : RadixChars[d] = ch) - 1
    ELSE Len(RadixChars)

\* strconv.FormatInt
RECURSIVE FormatUint(_, _)
FormatUint(n, base) ==
    IF n < base THEN <<RadixChars[n + 1]>>
    ELSE FormatUint(n \div base, base) \o <<RadixChars[(n % base) + 1]>>
FormatInt(n, base) ==
    IF n < 0 THEN <<"-">> \o FormatUint(0 - n, base) ELSE FormatUint(n, base)

\* strconv.ParseInt for a base that is given and the width of the integers:
\* a sign, then at least one digit of the base; a syntax error or a value
\* out of range is an error
RECURSIVE ParseUint(_, _)
ParseUint(text, base) ==
    IF text = <<>> THEN 0
    ELSE base * ParseUint(SubSeq(text, 1, Len(text) - 1), base)
             + RadixDigit(text[Len(text)])
ParseInt(text, base) ==
    LET signed == text # <<>> /\ Head(text) \in {"+", "-"}
        neg == text # <<>> /\ Head(text) = "-"
        digits == IF signed THEN Tail(text) ELSE text
        n == ParseUint(digits, base)
    IN  IF digits = <<>>
           \/ \E i \in 1..Len(digits) : RadixDigit(digits[i]) >= base
        THEN [ok |-> FALSE, n |-> 0]
        ELSE IF (neg /\ n > 0 - MinInt) \/ (~neg /\ n > MaxInt)
        THEN [ok |-> FALSE, n |-> 0]
        ELSE [ok |-> TRUE, n |-> IF neg THEN 0 - n ELSE n]

\* strings.TrimLeft: the text without its leading runes that are in the
\* cutset
RECURSIVE StringsTrimLeft(_, _)
StringsTrimLeft(text, cutset) ==
    IF text # <<>> /\ \E i \in 1..Len(cutset) : cutset[i] = Head(text)
    THEN StringsTrimLeft(Tail(text), cutset)
    ELSE text

\* ltrim: white space for an empty cutset
ltrim(text, cutset) ==
    IF Len(cutset) < 1 THEN StringsTrimLeft(text, <<" ">>)
    ELSE StringsTrimLeft(text, cutset)

\* BIN_TO_DEC, OCT_TO_DEC, HEX_TO_DEC
execParseInt(argv, base) ==
    IF Len(argv) # 1 THEN {Fail("FunctionArgumentLength")}
    ELSE IF IsNull(ToStr(argv[1])) THEN {Ok(NullValue)}
    ELSE LET raw == ToStr(argv[1]).text
             str == IF base = 16 THEN ltrim(raw, <<"0", "x">>) ELSE raw
             i == ParseInt(str, base)
         IN  IF ~i.ok THEN {Ok(NullValue)} ELSE {Ok(NewInteger(i.n))}

\* BIN, OCT, HEX
execFormatInt(argv, base) ==
    IF Len(argv) # 1 THEN {Fail("FunctionArgumentLength")}
    ELSE IF IsNull(ToInteger(argv[1])) THEN {Ok(NullValue)}
    ELSE {Ok(NewString(FormatInt(ToInteger(argv[1]).n, base)))}

EnotationToDec(argv) == execArgs(argv, {1}, <<"string">>, ValueOrNull)
Enotation(argv) == execArgs(argv, {1}, <<"float">>, Value)

\* NUMBER_FORMAT(number [, precision, point, thousands, decimals]): a Null
\* after the number leaves the default
NumberFormat(argv) ==
    IF Len(argv) < 1 \/ 5 < Len(argv) THEN {Fail("FunctionArgumentLength")}
    ELSE IF IsNull(ToFloat(argv[1])) THEN {Ok(NullValue)}
    ELSE Value

execStrings1Arg(argv) == execArgs(argv, {1}, <<"string">>, Value)
execStringsTrim(argv) == execArgs(argv, {1, 2}, <<"string", "string">>, Value)
execStringsLen(argv) == execArgs(argv, {1}, <<"string">>, Value)

\* BYTE_LEN(str [, encoding])
ByteLen(argv) ==
    IF Len(argv) < 1 \/ 2 < Len(argv) THEN {Fail("FunctionArgumentLength")}
    ELSE IF IsNull(ToStr(argv[1])) THEN {Ok(NullValue)}
    ELSE IF EncodingArg(argv, 2) = None THEN {Fail("FunctionInvalidArgument")}
    ELSE {Ok(NewInteger(ByteSize(ToStr(argv[1]).text, EncodingArg(argv, 2))))}


\* The positions of str, counted in runes from one, where substr begins
Matches(str, substr) ==
    {i \in 1..(Len(str) - Len(substr) + 1) :
         SubSeq(str, i, i + Len(substr) - 1) = substr}

\* The offset counted in characters
StringsIndex_Runes(str, substr) ==
    IF Matches(str, substr) = {} THEN -1
    ELSE (CHOOSE i \in Matches(str, substr) :
              \A j \in Matches(str, substr) : i <= j) - 1

\* strings.Index: the offset in bytes of the first substr in str, -1 when
\* there is none. A Go string holds UTF-8, where a rune begins only at the
\* first byte of a rune, so the first match of the bytes is the first match
\* of the runes, and its offset is the size of the runes before it
StringsIndex(str, substr) ==
    IF Matches(str, substr) = {} THEN -1
    ELSE LET first == CHOOSE i \in Matches(str, substr) :
                          \A j \in Matches(str, substr) : i <= j
         IN  ByteSize(SubSeq(str, 1, first - 1), "UTF8")

\* INSTR(str, substr)
Instr(argv) ==
    IF Len(argv) # 2 THEN {Fail("FunctionArgumentLength")}
    ELSE IF IsNull(ToStr(argv[1])) THEN {Ok(NullValue)}
    ELSE IF IsNull(ToStr(argv[2])) THEN {Ok(NullValue)}
    ELSE LET index == StringsIndex(ToStr(argv[1]).text, ToStr(argv[2]).text)
         IN  IF index < 0 THEN {Ok(NullValue)} ELSE {Ok(NewInteger(index))}

ListElem(argv) ==
    execArgs(argv, {3}, <<"string", "string", "integer">>, ValueOrNull)
Replace(argv) == execArgs(argv, {3}, <<"string", "string", "string">>, Value)

\* FORMAT(format [, value ...])
Format(argv) ==
    IF Len(argv) < 1 THEN {Fail("FunctionArgumentLength")}
    ELSE IF IsNull(ToStr(argv[1])) THEN {Fail("FunctionInvalidArgument")}
    ELSE {Ok(Computed), Fail("FunctionInvalidArgument")}

JsonValue(argv) ==
    execArgs(argv, {2}, <<"string", "string">>,
             {Ok(Computed), Ok(NullValue), Fail("FunctionInvalidArgument")})

execCrypto(argv) == execArgs(argv, {1}, <<"string">>, Value)
execCryptoHMAC(argv) == execArgs(argv, {2}, <<"string", "string">>, Value)
DatetimeFormat(argv) == execArgs(argv, {2}, <<"datetime", "string">>, Value)

\* A function of a datetime that takes Null for the epoch
execDatetimeToInt_Epoch(argv) ==
    IF Len(argv) # 1 THEN {Fail("FunctionArgumentLength")} ELSE Value

execDatetimeToInt(argv) == execArgs(argv, {1}, <<"datetime">>, Value)
execDatetimeAdd(argv) == execArgs(argv, {2}, <<"datetime", "integer">>, Value)
truncateDate(argv) == execArgs(argv, {1}, <<"datetime">>, Value)
truncateDuration(argv) == execArgs(argv, {1}, <<"datetime">>, Value)
DateDiff(argv) == execArgs(argv, {2}, <<"datetime", "datetime">>, Value)
timeDiff(argv) == execArgs(argv, {2}, <<"datetime", "datetime">>, Value)
UTC(argv) == execArgs(argv, {1}, <<"datetime">>, Value)

\* The conversions as functions
String(argv) ==
    IF Len(argv) # 1 THEN {Fail("FunctionArgumentLength")}
    ELSE IF argv[1].type \in {"boolean", "ternary", "datetime"} THEN Value
    ELSE {Ok(ToStr(argv[1]))}
Integer(argv) ==
    IF Len(argv) # 1 THEN {Fail("FunctionArgumentLength")}
    ELSE IF argv[1].type = "datetime" THEN {Ok(NewInteger(argv[1].n))}
    ELSE IF argv[1].type \in {"integer", "float", "string"}
         THEN {Ok(ToInteger(argv[1]))}
         ELSE {Ok(NullValue)}
Float(argv) ==
    IF Len(argv) # 1 THEN {Fail("FunctionArgumentLength")}
    ELSE IF argv[1].type = "datetime" THEN {Ok(NewFloat(argv[1].n))}
    ELSE {Ok(ToFloat(argv[1]))}
Boolean(argv) ==
    IF Len(argv) # 1 THEN {Fail("FunctionArgumentLength")}
    ELSE {Ok(ToBoolean(argv[1]))}
Ternary(argv) ==
    IF Len(argv) # 1 THEN {Fail("FunctionArgumentLength")}
    ELSE {Ok(NewTernary(TernaryOf(argv[1])))}
Datetime(argv) ==
    IF Len(argv) # 1 THEN {Fail("FunctionArgumentLength")}
    ELSE {Ok(ToDatetime(argv[1]))}

\* CALL(command [, argument ...]): runs the command
Call(argv) ==
    IF Len(argv) < 1 THEN {Fail("FunctionArgumentLength")}
    ELSE {Ok(Computed), Fail("ExternalCommand")}

\* The names of the registry by the function that implements them
RoundNames == {"CEIL", "FLOOR", "ROUND"}
Math1Names ==
    {"ABS", "ACOS", "ASIN", "ATAN", "COS", "SIN", "TAN", "EXP", "EXP2",
     "EXPM1", "LOG", "LOG10", "LOG2", "LOG1P", "SQRT"}
Math2Names == {"ATAN2", "POW"}
ParseIntNames == {"BIN_TO_DEC", "OCT_TO_DEC", "HEX_TO_DEC"}
FormatIntNames == {"BIN", "OCT", "HEX"}

\* BinToDec, OctToDec, HexToDec, Bin, Oct, Hex: the base each passes on
Base(fn) ==
    CASE fn \in {"BIN", "BIN_TO_DEC"} -> 2
      [] fn \in {"OCT", "OCT_TO_DEC"} -> 8
      [] fn \in {"HEX", "HEX_TO_DEC"} -> 16
TrimNames == {"TRIM", "LTRIM", "RTRIM"}
Strings1Names ==
    {"UPPER", "LOWER", "BASE64_ENCODE", "BASE64_DECODE", "HEX_ENCODE",
     "HEX_DECODE"}
StringsLenNames == {"LEN", "WIDTH"}
CryptoNames == {"MD5", "SHA1", "SHA256", "SHA512"}
CryptoHMACNames == {"MD5_HMAC", "SHA1_HMAC", "SHA256_HMAC", "SHA512_HMAC"}
DatetimeToIntNames ==
    {"YEAR", "MONTH", "DAY", "HOUR", "MINUTE", "SECOND", "MILLISECOND",
     "MICROSECOND", "NANOSECOND", "WEEKDAY", "UNIX_TIME", "UNIX_NANO_TIME",
     "DAY_OF_YEAR", "WEEK_OF_YEAR"}
DatetimeAddNames ==
    {"ADD_YEAR", "ADD_MONTH", "ADD_DAY", "ADD_HOUR", "ADD_MINUTE",
     "ADD_SECOND", "ADD_MILLI", "ADD_MICRO", "ADD_NANO"}
TruncateDateNames == {"TRUNC_MONTH", "TRUNC_DAY", "TRUNC_TIME", "TRUNC_HOUR"}
TruncateDurationNames ==
    {"TRUNC_MINUTE", "TRUNC_SECOND", "TRUNC_MILLI", "TRUNC_MICRO",
     "TRUNC_NANO"}
TimeDiffNames == {"TIME_DIFF", "TIME_NANO_DIFF"}
OtherNames ==
    {"COALESCE", "IF", "IFNULL", "NULLIF", "ENOTATION_TO_DEC", "ENOTATION",
     "NUMBER_FORMAT", "RAND", "BYTE_LEN", "LPAD", "RPAD", "SUBSTR", "INSTR",
     "LIST_ELEM", "REPLACE", "FORMAT", "JSON_VALUE", "DATETIME_FORMAT",
     "DATE_DIFF", "UTC", "STRING", "INTEGER", "FLOAT", "BOOLEAN", "TERNARY",
     "DATETIME", "CALL"}
FunctionNames ==
    RoundNames \cup Math1Names \cup Math2Names \cup ParseIntNames
        \cup FormatIntNames \cup TrimNames \cup Strings1Names
        \cup StringsLenNames \cup CryptoNames \cup CryptoHMACNames
        \cup DatetimeToIntNames \cup DatetimeAddNames \cup TruncateDateNames
        \cup TruncateDurationNames \cup TimeDiffNames \cup OtherNames

\* The registry: what the function of a name returns for the arguments
Functions(fn, argv) ==
    CASE fn = "COALESCE" -> Coalesce(argv)
      [] fn = "IF" -> If(argv)
      [] fn = "IFNULL" -> Ifnull(argv)
      [] fn = "NULLIF" -> Nullif(argv)
      [] fn = "ROUND" -> Round(argv)
      [] fn \in RoundNames \ {"ROUND"} -> roundParams(argv)
      [] fn \in Math1Names -> execMath1Arg(argv)
      [] fn \in Math2Names -> execMath2Args(argv)
      [] fn \in ParseIntNames -> execParseInt(argv, Base(fn))
      [] fn = "ENOTATION_TO_DEC" -> EnotationToDec(argv)
      [] fn \in FormatIntNames -> execFormatInt(argv, Base(fn))
      [] fn = "ENOTATION" -> Enotation(argv)
      [] fn = "NUMBER_FORMAT" -> NumberFormat(argv)
      [] fn = "RAND" -> Rand(argv)
      [] fn \in TrimNames -> execStringsTrim(argv)
      [] fn \in Strings1Names -> execStrings1Arg(argv)
      [] fn \in StringsLenNames -> execStringsLen(argv)
      [] fn = "BYTE_LEN" -> ByteLen(argv)
      [] fn = "LPAD" -> Lpad(argv)
      [] fn = "RPAD" -> Rpad(argv)
      [] fn = "SUBSTR" -> Substr(argv)
      [] fn = "INSTR" -> Instr(argv)
      [] fn = "LIST_ELEM" -> ListElem(argv)
      [] fn = "REPLACE" -> Replace(argv)
      [] fn = "FORMAT" -> Format(argv)
      [] fn = "JSON_VALUE" -> JsonValue(argv)
      [] fn \in CryptoNames -> execCrypto(argv)
      [] fn \in CryptoHMACNames -> execCryptoHMAC(argv)
      [] fn = "DATETIME_FORMAT" -> DatetimeFormat(argv)
      [] fn \in DatetimeToIntNames -> execDatetimeToInt(argv)
      [] fn \in DatetimeAddNames -> execDatetimeAdd(argv)
      [] fn \in TruncateDateNames -> truncateDate(argv)
      [] fn \in TruncateDurationNames -> truncateDuration(argv)
      [] fn = "DATE_DIFF" -> DateDiff(argv)
      [] fn \in TimeDiffNames -> timeDiff(argv)
      [] fn = "UTC" -> UTC(argv)
      [] fn = "STRING" -> String(argv)
      [] fn = "INTEGER" -> Integer(argv)
      [] fn = "FLOAT" -> Float(argv)
      [] fn = "BOOLEAN" -> Boolean(argv)
      [] fn = "TERNARY" -> Ternary(argv)
      [] fn = "DATETIME" -> Datetime(argv)
      [] fn = "CALL" -> Call(argv)

\* The evaluation of a function call: the function of the name, applied
CallFunction(fn, argv) ==
    /\ call = NoCall
    /\ \E r \in Functions(fn, argv) :
           call' = [fn |-> fn, args |-> argv, result |-> r.value,
                    err |-> r.err]
    /\ UNCHANGED outsideCall

\* The caller has taken the result
CallReturn ==
    /\ call # NoCall
    /\ call' = NoCall
    /\ UNCHANGED outsideCall

InitCall ==
    /\ IdleLocks
    /\ IdleCursor
    /\ IdleStatements
    /\ op = IdleOp
    /\ tx = NewTx(<<"r1">>)
    /\ pc = "stmt"
    /\ nExec = 0
    /\ flow = None
    /\ execErr = None
    /\ retErr = None
    /\ calls = <<>>
    /\ args = NoArgs
    /\ out = NoOut
    /\ shell = NoShell

\* Sequences of at most n values of a set
Tuples(S, lo, hi) == UNION {[1..k -> S] : k \in lo..hi}

\* LPAD and RPAD on texts, lengths, pad strings, padding types, encodings
PadTexts == {NewString(t) : t \in Texts(MaxLen)}
PadStrs == PadTexts \cup {NullValue, NewInteger(12)}
PadLengths ==
    {NewInteger(n) : n \in (-1)..MaxPad} \cup {NullValue, NewString(<<"3">>)}
PadPads == PadTexts \cup {NullValue}
PadTypes ==
    {NewString(<<"L", "E", "N">>), NewString(<<"B", "Y", "T", "E">>),
     NewString(<<"W", "I", "D", "T", "H">>), NewString(<<"b", "y", "t", "e">>),
     NewString(<<"X">>), NullValue}
PadEncodings ==
    {NewString(<<"U", "T", "F", "8">>), NewString(<<"S", "J", "I", "S">>),
     NewString(<<"X">>), NullValue}
PadOptions ==
    {<<>>} \cup {<<t>> : t \in PadTypes}
        \cup {<<t, e>> : t \in PadTypes, e \in PadEncodings}
PadMiscounted ==
    {<<NewString(<<"a">>), NullValue>>,
     <<NullValue, NewInteger(3), NewString(<<"a">>), NullValue, NullValue,
       NullValue>>}

NextPadding ==
    \/ /\ call = NoCall
       /\ \E fn \in {"LPAD", "RPAD"}, s \in PadStrs, l \in PadLengths,
             p \in PadPads, o \in PadOptions :
              CallFunction(fn, <<s, l, p>> \o o)
    \/ /\ call = NoCall
       /\ \E fn \in {"LPAD", "RPAD"}, argv \in PadMiscounted :
              CallFunction(fn, argv)
    \/ CallReturn

SpecPadding == InitCall /\ [][NextPadding]_vars

\* SUBSTR on texts, on every position and length
abcde == <<"a", "b", "c", "d", "e">>
SubstrStrs ==
    {NewString(t) : t \in Texts(MaxLen) \cup {abcde}}
        \cup {NullValue, NewInteger(12)}
Ints == {NewInteger(n) : n \in MinInt..MaxInt}
SubstrOptions == {<<>>} \cup {<<l>> : l \in Ints \cup {NullValue}}
SubstrMiscounted ==
    {<<NewString(abcde)>>,
     <<NullValue, NewInteger(0), NewInteger(1), NullValue>>}

NextSubstr ==
    \/ /\ call = NoCall
       /\ \E s \in SubstrStrs, i \in Ints \cup {NullValue},
             o \in SubstrOptions :
              CallFunction("SUBSTR", <<s, i>> \o o)
    \/ /\ call = NoCall
       /\ \E argv \in SubstrMiscounted : CallFunction("SUBSTR", argv)
    \/ CallReturn

SpecSubstr == InitCall /\ [][NextSubstr]_vars

\* RAND on every pair of integers
RandOther ==
    {<<>>, <<NewInteger(1)>>, <<NullValue, NewInteger(1)>>,
     <<NewInteger(1), NewString(<<"a">>)>>,
     <<NewInteger(1), NewInteger(2), NewInteger(3)>>}

NextRand ==
    \/ /\ call = NoCall
       /\ \E lo \in Ints, hi \in Ints : CallFunction("RAND", <<lo, hi>>)
    \/ /\ call = NoCall
       /\ \E argv \in RandOther : CallFunction("RAND", argv)
    \/ CallReturn

SpecRand == InitCall /\ [][NextRand]_vars

\* Every function of the registry on every list of a few values
RegistryValues == {NullValue, NewString(<<"a">>), NewInteger(1)}
RegistryArgs == Tuples(RegistryValues, 0, MaxArgs)

NextRegistry ==
    \/ /\ call = NoCall
       /\ \E fn \in FunctionNames, argv \in RegistryArgs :
              CallFunction(fn, argv)
    \/ CallReturn

SpecRegistry == InitCall /\ [][NextRegistry]_vars

\* ROUND on every float64 of a small magnitude, with and without a place
RoundNumbers ==
    {NewFloat64(k) :
         k \in {j \in (0 - MaxNumber * Grid)..(MaxNumber * Grid) :
                    IsFloat64(j) /\ j % Grid # 0}}
        \cup {NewInteger(n) : n \in (0 - MaxNumber)..MaxNumber}
RoundPlaces == {NewInteger(n) : n \in -1..MaxPlace}
RoundOther ==
    {<<>>, <<NullValue>>, <<NewInteger(1), NullValue>>,
     <<NewString(<<"a">>), NewInteger(1)>>,
     <<NewInteger(1), NewInteger(2), NewInteger(3)>>}

NextRound ==
    \/ /\ call = NoCall
       /\ \E x \in RoundNumbers : CallFunction("ROUND", <<x>>)
    \/ /\ call = NoCall
       /\ \E x \in RoundNumbers, place \in RoundPlaces :
              CallFunction("ROUND", <<x, place>>)
    \/ /\ call = NoCall
       /\ \E argv \in RoundOther : CallFunction("ROUND", argv)
    \/ CallReturn

SpecRound == InitCall /\ [][NextRound]_vars

\* INSTR on every pair of short texts, on Null and on every other count of
\* arguments
InstrStrs == {NewString(t) : t \in Texts(MaxInstr)}
InstrOther ==
    {<<>>, <<NewString(<<"a">>)>>,
     <<NewString(<<"a">>), NewString(<<"a">>), NewString(<<"a">>)>>}

NextInstr ==
    \/ /\ call = NoCall
       /\ \E s \in InstrStrs \cup {NullValue, NewInteger(12)},
             sub \in InstrStrs \cup {NullValue, NewInteger(2)} :
              CallFunction("INSTR", <<s, sub>>)
    \/ /\ call = NoCall
       /\ \E argv \in InstrOther : CallFunction("INSTR", argv)
    \/ CallReturn

SpecInstr == InitCall /\ [][NextInstr]_vars

\* A function called on the value of the call before it, as the argument of
\* a function that is itself a function is evaluated first
CallOnResult(fn) ==
    /\ call # NoCall
    /\ call.err = None
    /\ \E r \in Functions(fn, <<call.result>>) :
           call' = [fn |-> fn, args |-> <<call.result>>, result |-> r.value,
                    err |-> r.err]
    /\ UNCHANGED outsideCall

\* The radix functions: the encoders on every integer, the decoders on what
\* an encoder returned and on a few texts, both on every other count of
\* arguments
RadixStrs ==
    {NewString(t) :
         t \in {<<>>, <<"0">>, <<"0", "x", "1", "f">>, <<"x", "0", "1">>,
                <<"+", "1">>, <<"-">>, <<"9">>, <<"g">>,
                FormatInt(MaxInt + 1, 2), FormatInt(MinInt - 1, 16)}}
RadixOther == {<<>>, <<NewInteger(1), NewInteger(1)>>}

NextRadix ==
    \/ /\ call = NoCall
       /\ \E fn \in FormatIntNames, n \in Ints \cup {NullValue} :
              CallFunction(fn, <<n>>)
    \/ /\ call.fn \in FormatIntNames
       /\ \E fn \in ParseIntNames : CallOnResult(fn)
    \/ /\ call = NoCall
       /\ \E fn \in ParseIntNames, s \in RadixStrs \cup {NullValue} :
              CallFunction(fn, <<s>>)
    \/ /\ call = NoCall
       /\ \E fn \in ParseIntNames \cup FormatIntNames, argv \in RadixOther :
              CallFunction(fn, argv)
    \/ CallReturn

SpecRadix == InitCall /\ [][NextRadix]_vars

--------------------------------------------------------------------------
(* Claims on Run *)

\* Execute has returned an error and Run is on its way out
RunFailed ==
    /\ execErr # None
    /\ pc \in {"executed", "defer_out", "defer_rollback", "done"}

\* C1, as stated: whenever Execute returns an error, Commit is never called,
\* Rollback is called exactly once before Run returns, and no change made by
\* the failed script is committed (the files are as they were before Run).
C1_AsStated ==
    (pc = "done" /\ execErr # None) =>
        /\ calls = <<"Rollback", "Release">>
        /\ tx.disk = NewTx(<<"r1">>).disk

\* C1, amended: whenever Execute returns an error, Run itself makes no call
\* to Commit and calls Rollback exactly once before it returns, so no change
\* the script had left uncommitted when it failed reaches a file: after the
\* failure a file only changes by the deletion of a created, uncommitted one,
\* and at the return nothing is dirty and no lock is held.
C1_FailedRunRollsBack ==
    /\ []((pc = "done" /\ execErr # None) =>
            /\ calls = <<"Rollback", "Release">>
            /\ Dirty(tx) = {}
            /\ tx.lock = {})
    /\ [][RunFailed =>
            \A p \in Paths :
                \/ tx'.disk[p] = tx.disk[p]
                \/ p \in tx.created /\ tx'.disk[p] = Absent]_vars

\* A script that committed an update with a COMMIT statement and then failed:
\* the statement's Commit stands, Run rolled back once
C1_Witness ==
    /\ pc = "done"
    /\ execErr = PlainError
    /\ calls = <<"Rollback", "Release">>
    /\ tx.disk["t"] = File(Encode(<<"r2">>))

\* C5: Run returns nil if and only if the input parses, the output file (when
\* one is given) does not already exist and can be created, and Execute
\* returns no error; otherwise it returns the first of these errors, and
\* Execute is not called after a parse error or an output-file error.
C5_RunResult ==
    pc = "done" =>
        LET outOK == args.outfile => (~args.outExisted /\ ~args.createFails)
        IN  /\ retErr = None <=> (args.parseOK /\ outOK /\ execErr = None)
            /\ ~args.parseOK => retErr = SyntaxError
            /\ (args.parseOK /\ args.outfile /\ args.outExisted)
                  => retErr = "FileExists"
            /\ (args.parseOK /\ args.outfile /\ ~args.outExisted
                  /\ args.createFails) => retErr = "CreateFailed"
            /\ (args.parseOK /\ outOK) => retErr = execErr
            /\ ~(args.parseOK /\ outOK) => (flow = None /\ nExec = 0)

\* Run was given an output file that already exists and returned that error
C5_Witness ==
    /\ pc = "done"
    /\ args.parseOK
    /\ args.outExisted
    /\ retErr = "FileExists"
    /\ nExec = 0

--------------------------------------------------------------------------
(* Claims on LaunchInteractiveShell *)

\* The pass of the loop that this step ends met a syntax error or an error
\* of Execute other than ForcedExit
ShellErrorStep ==
    \/ pc = "prompt" /\ shell'.last = "syntax"
    \/ pc = "executed" /\ execErr \notin {None, ForcedExit}

\* C6: in the shell a syntax error or a statement error other than ForcedExit
\* is logged and the loop goes on to read the next input; the shell performs
\* no Rollback in response: its answer to the error makes no call and
\* changes no file, view, lock or uncommitted mark, so what earlier
\* statements left uncommitted is still pending.
C6_ShellErrorKeepsPending ==
    [][ShellErrorStep =>
          /\ pc' = "prompt"
          /\ shell'.lines = <<>>
          /\ shell'.last \in {"syntax", "error"}
          /\ tx' = tx
          /\ Dirty(tx') = Dirty(tx)
          /\ calls' = calls]_vars

\* Back at the prompt after an error of Execute, with an update of "t" still
\* uncommitted
C6_Witness ==
    /\ pc = "prompt"
    /\ shell.last = "error"
    /\ "t" \in tx.updated
    /\ tx.cache["t"] = View(<<"r2">>)
    /\ tx.disk["t"] = File(Encode(<<"r1">>))

\* The loop is left in this step
ShellLoopEnds == pc \in {"prompt", "executed"} /\ pc' = "teardown"

\* C7: the interactive loop ends only when ReadLine returns EOF (the shell
\* returns nil), ReadLine returns another error (returned), Execute returns a
\* ForcedExit error (returned) or Execute returns flow Exit without error
\* (nil); every other pass leaves the shell running, at the prompt or in
\* Execute.
C7_ShellLoopExits ==
    /\ [][ShellLoopEnds =>
            \/ pc = "prompt" /\ shell'.last = EOF /\ retErr' = None
            \/ pc = "prompt" /\ shell'.last = ReadError /\ retErr' = ReadError
            \/ pc = "executed" /\ execErr = ForcedExit /\ retErr' = ForcedExit
            \/ pc = "executed" /\ execErr = None /\ flow = Exit
                  /\ retErr' = None]_vars
    /\ [][(pc = "prompt" /\ shell'.last \notin {EOF, ReadError}) =>
            pc' \in {"prompt", "execute"}]_vars
    /\ [][(pc = "prompt" /\ shell'.last \in {EOF, ReadError}) =>
            pc' = "teardown"]_vars
    /\ [][pc = "executed" =>
            IF execErr = ForcedExit \/ (execErr = None /\ flow = Exit)
            THEN pc' = "teardown"
            ELSE pc' = "prompt"]_vars

\* The shell has returned nil after an EXIT statement
C7_Witness ==
    /\ pc = "done"
    /\ shell.last = "exit"
    /\ flow = Exit
    /\ retErr = None
    /\ calls = <<"Teardown", "Rollback", "Release">>

--------------------------------------------------------------------------
(* Claims on the transaction manager *)

\* The files COMMIT has not renamed yet
Unrenamed ==
    IF op.phase = "release" THEN Tail(op.queue) ELSE op.queue

\* C2: after COMMIT of a dirty file-backed view the file content equals the
\* encoding of the view; the new content goes to the sibling temp file and
\* only the rename makes it visible, so a failure at any step before the
\* rename leaves the original content of the file unchanged.
C2_CommitAtomicPerFile ==
    /\ [](op.last = "commit" =>
            /\ tx = Commit(op.start)
            /\ \A p \in Dirty(op.start) :
                  /\ tx.cache[p] = op.start.cache[p]
                  /\ tx.disk[p] = File(Encode(tx.cache[p].records)))
    /\ [](op.last \in {"committing", "commit_failed"} =>
            \A i \in 1..Len(Unrenamed) :
                tx.disk[Unrenamed[i]] = op.start.disk[Unrenamed[i]])
    /\ [][(~TxIdle /\ tx'.disk # tx.disk) =>
            /\ op.phase = "rename"
            /\ tx.temp[Head(op.queue)] =
                   File(Encode(tx.cache[Head(op.queue)].records))
            /\ tx'.disk = [tx.disk EXCEPT ![Head(op.queue)] =
                                              tx.temp[Head(op.queue)]]]_vars

\* COMMIT of "n" and "t": "n" was renamed, then the write of "t" broke off
\* after the header and one record; "t" still has its original content
C2_Witness ==
    /\ op.last = "commit_failed"
    /\ op.queue = <<"t">>
    /\ tx.temp["t"] = File(<<HeaderLine, "r1">>)
    /\ tx.cache["t"] = View(<<"r1", "r2">>)
    /\ tx.disk["t"] = File(Encode(<<"r1">>))
    /\ tx.disk["n"] = File(Encode(<<"r2">>))

\* What holds of the created files after COMMIT and after ROLLBACK
CreatedAfterwards ==
    /\ op.last = "commit" =>
          \A p \in op.start.created :
              tx.disk[p] = File(Encode(op.start.cache[p].records))
    /\ op.last = "rollback" =>
          /\ tx.lock = {}
          /\ \A p \in op.start.created : ~tx.disk[p].exists

\* The created file is being committed: renamed, not yet released
Committing(p) == op.phase = "release" /\ Head(op.queue) = p

--------------------------------------------------------------------------
(* Claims on the FileLock service *)

\* What one step may do to the lock and to the acquisition of q
LockStepOf(q) ==
    /\ (holders[q] # None /\ holders'[q] # holders[q]) =>
          /\ holders'[q] = None
          /\ acquirer[q].st = "holding"
          /\ acquirer'[q].st = "idle"
          /\ \A r \in Procs \ {q} :
                holders'[r] = holders[r] /\ acquirer'[r] = acquirer[r]
    /\ (Waiting(q) /\ acquirer'[q].st = "holding") =>
          /\ Grantable(q, acquirer[q].mode)
          /\ holders'[q] = acquirer[q].mode
    /\ (Waiting(q) /\ acquirer'[q].st = "timeout") =>
          /\ ~Grantable(q, acquirer[q].mode)
          /\ acquirer[q].waited = WaitTimeout
          /\ holders' = holders
    /\ (Waiting(q) /\ acquirer[q].waited < WaitTimeout
                   /\ ~Grantable(q, acquirer[q].mode)) =>
          /\ acquirer'[q].st = "waiting"
          /\ acquirer'[q].mode = acquirer[q].mode

\* C3: of the acquirers that request an exclusive lock on one path the first
\* gets it and holds it until its own Close or Commit; another never
\* acquires the lock while it is held, keeps polling for wait_timeout and
\* then fails with LockTimeout: not before wait_timeout has elapsed, and it
\* does not wait forever.
C3_ExclusiveLock ==
    /\ [](\A q \in Procs :
            /\ holders[q] = Exclusive =>
                  \A r \in Procs \ {q} : holders[r] = None
            /\ holders[q] # None <=> acquirer[q].st = "holding"
            /\ acquirer[q].waited <= WaitTimeout)
    /\ [][\A q \in Procs : LockStepOf(q)]_vars
    /\ \A q \in Procs :
          Waiting(q) ~> acquirer[q].st \in {"holding", "timeout"}

\* p1 holds the exclusive lock; p2 asked for it, polled for wait_timeout and
\* failed with LockTimeout
C3_Witness ==
    /\ holders["p1"] = Exclusive
    /\ acquirer["p1"].st = "holding"
    /\ acquirer["p2"] =
          [st |-> "timeout", mode |-> Exclusive, waited |-> WaitTimeout]
    /\ holders["p2"] = None

--------------------------------------------------------------------------
(* Claims on cursors *)

Min(a, b) == IF a < b THEN a ELSE b

\* C8: for a cursor declared over a select query with n result rows,
\* DECLARE, OPEN and then repeated FETCH NEXT deliver exactly rows 1..n of
\* the query in order, one row per fetch, the values of each row assigned by
\* position to the target variables.
C8_CursorRoundTrip ==
    /\ IsOpen(cursor) => cursor.view = Eval(cursor.query)
    /\ (IsOpen(cursor) /\ cursor.onlyNext) =>
          cursor.delivered =
              SubSeq(Eval(cursor.query), 1,
                     Min(cursor.pointer, cursor.query.n))
    /\ fetch.inRange =>
          /\ IsOpen(cursor)
          /\ cursor.pointer \in 1..cursor.query.n
          /\ \A i \in 1..Width :
                variables[fetch.targets[i]] =
                    Eval(cursor.query)[cursor.pointer][i]

\* Three FETCH NEXT into @var2, @var1 on the query of three rows in
\* descending order: the third has delivered row 1
C8_Witness ==
    /\ cursor.state = "Open"
    /\ cursor.query = [n |-> 3, desc |-> TRUE]
    /\ cursor.onlyNext
    /\ cursor.pointer = 3
    /\ cursor.delivered = <<Row(3), Row(2), Row(1)>>
    /\ fetch.targets = <<"@var2", "@var1">>
    /\ variables["@var2"] = Str("", 1)
    /\ variables["@var1"] = Str("str", 1)

\* This step is a FETCH, as a statement or at the head of an iteration of
\* WHILE-IN-CURSOR, of an open cursor, into declared variables as many as
\* the view has columns, and it moves the pointer past the last row
FetchPastEnd ==
    /\ \/ pc = "stmt" /\ fetch'.pos.kind # None
       \/ pc = "while_fetch"
    /\ IsOpen(cursor)
    /\ Len(fetch'.targets) = Width
    /\ \A i \in 1..Len(fetch'.targets) : fetch'.targets[i] \in Declared
    /\ Index(cursor, fetch'.pos) > Len(cursor.view)

\* C9: a FETCH on an open cursor that moves the pointer past the last row
\* raises no error, assigns Null to every target variable, reports
\* not-in-range and leaves the cursor open, in state OpenExhausted, until
\* CLOSE.
C9_FetchPastEnd ==
    /\ [][FetchPastEnd =>
            /\ fetch'.err = None
            /\ execErr' = None
            /\ ~fetch'.inRange
            /\ \A i \in 1..Len(fetch'.targets) :
                  variables'[fetch'.targets[i]] = Null
            /\ cursor'.state = "OpenExhausted"
            /\ IsInRange(cursor') = "FALSE"
            /\ cursor'.view = cursor.view]_vars
    /\ [](cursor.state = "OpenExhausted" =>
            /\ IsOpen(cursor)
            /\ cursor.pointer = Len(cursor.view) + 1
            /\ cursor.view = Eval(cursor.query))
    /\ [][(IsOpen(cursor) /\ ~IsOpen(cursor')) =>
            /\ pc = "stmt"
            /\ cursor'.state = "Closed"
            /\ fetch' = NoFetch]_vars

\* After two rows were fetched, the third FETCH NEXT on the query of two rows
\* went past the end
C9_Witness ==
    /\ cursor.state = "OpenExhausted"
    /\ cursor.query.n = 2
    /\ cursor.onlyNext
    /\ Len(cursor.delivered) = 2
    /\ fetch.pos.kind = "NEXT"
    /\ fetch.targets = <<"@var1", "@var2">>
    /\ fetch.err = None
    /\ ~fetch.inRange
    /\ variables = NoVariables
    /\ pc = "stmt"

\* The rows from the pointer at the start of the loop up to the pointer now
Looped ==
    SubSeq(cursor.view, loop.start + 1, Min(cursor.pointer, Len(cursor.view)))

\* C10: WHILE-IN-CURSOR over an open cursor with n remaining rows runs its
\* body once per row in row order, with the row fetched into the declared
\* variables, and ends with flow Terminate when the fetch goes past the end;
\* CONTINUE moves to the next row, BREAK ends the loop with flow Terminate,
\* EXIT ends it with flow Exit, and an error in the fetch or in the body ends
\* it with that error.
C10_WhileInCursor ==
    /\ []((pc \in {"while_fetch", "while_body", "while_done"}
               /\ IsOpen(cursor) /\ loop.last # "fetch_error") =>
            loop.ran = Looped)
    /\ [](pc = "while_body" =>
            /\ fetch.inRange
            /\ \A i \in 1..Width :
                  variables[loop.targets[i]] = cursor.view[cursor.pointer][i])
    /\ [](pc = "while_done" =>
            /\ loop.last \in {"end", "Break", "Exit", "Error", "fetch_error"}
            /\ loop.last = "end" =>
                  /\ flow = Terminate /\ execErr = None
                  /\ cursor.state = "OpenExhausted"
                  /\ loop.ran = SubSeq(cursor.view, loop.start + 1,
                                       Len(cursor.view))
            /\ loop.last = "fetch_error" =>
                  /\ execErr = fetch.err
                  /\ execErr \in {"CursorClosed", "CursorFetchLength",
                                  "UndefinedVariable"})
    /\ [][pc = "while_fetch" =>
            /\ fetch'.pos.kind = "NEXT"
            /\ fetch'.targets = loop.targets
            /\ IF fetch'.err # None
               THEN pc' = "while_done" /\ loop'.last = "fetch_error"
               ELSE IF fetch'.inRange
               THEN pc' = "while_body" /\ cursor'.pointer = cursor.pointer + 1
               ELSE pc' = "while_done" /\ loop'.last = "end"]_vars
    /\ [][pc = "while_body" =>
            /\ cursor' = cursor
            /\ loop'.ran = loop.ran
            /\ CASE loop'.last \in {"Terminate", "Continue"} ->
                      pc' = "while_fetch"
                 [] loop'.last = "Break" ->
                      pc' = "while_done" /\ flow' = Terminate
                                         /\ execErr' = None
                 [] loop'.last = "Exit" ->
                      pc' = "while_done" /\ flow' = Exit /\ execErr' = None
                 [] OTHER ->
                      pc' = "while_done" /\ flow' = ErrorFlow
                                         /\ execErr' = PlainError]_vars

\* The loop over the freshly opened cursor of three rows has ended at the
\* fetch past the end, after a CONTINUE in its last iteration
C10_Witness ==
    /\ pc = "while_done"
    /\ loop.last = "end"
    /\ loop.start = 0
    /\ loop.targets = <<"@var1", "@var2">>
    /\ loop.ran = <<Row(1), Row(2), Row(3)>>
    /\ flow = Terminate
    /\ execErr = None
    /\ cursor.state = "OpenExhausted"

--------------------------------------------------------------------------
(* Claims on control flow *)

InWhile == ctl.stmt = "while"

\* C11: WHILE repeats its body while the condition evaluates to TRUE; a
\* CONTINUE in the body skips the rest of that iteration and the condition is
\* evaluated again; a BREAK ends the loop and the loop returns flow Terminate
\* (BREAK and CONTINUE never escape the loop); an EXIT ends the loop and is
\* returned as flow Exit; an error in the condition or in the body ends the
\* loop with that error.
C11_While ==
    /\ [][pc = "while_cond" =>
            /\ ctl'.evals = ctl.evals + 1
            /\ ctl'.ran = ctl.ran
            /\ CASE ctl'.cond = "TRUE" ->
                      pc' = "while_stmts" /\ ctl'.iter = ctl.iter + 1
                 [] ctl'.cond = "ERROR" ->
                      /\ pc' = "returned" /\ ctl'.iter = ctl.iter
                      /\ flow' = ErrorFlow /\ execErr' = PlainError
                 [] OTHER ->
                      /\ pc' = "returned" /\ ctl'.iter = ctl.iter
                      /\ flow' = Terminate /\ execErr' = None]_vars
    /\ [][pc = "while_stmts" =>
            /\ ctl'.evals = ctl.evals /\ ctl'.iter = ctl.iter
            /\ CASE ctl'.last = "Terminate" ->
                      pc' = "while_cond" /\ ctl'.ran = Append(ctl.ran, ctl.iter)
                 [] ctl'.last = "Continue" ->
                      pc' = "while_cond" /\ ctl'.ran = ctl.ran
                 [] ctl'.last = "Break" ->
                      /\ pc' = "returned" /\ ctl'.ran = ctl.ran
                      /\ flow' = Terminate /\ execErr' = None
                 [] ctl'.last = "Exit" ->
                      /\ pc' = "returned" /\ ctl'.ran = ctl.ran
                      /\ flow' = Exit /\ execErr' = None
                 [] OTHER ->
                      /\ pc' = "returned" /\ ctl'.ran = ctl.ran
                      /\ flow' = ErrorFlow /\ execErr' = PlainError]_vars
    /\ []((InWhile /\ pc = "returned") =>
            /\ flow \in {Terminate, Exit, ErrorFlow}
            /\ flow = ErrorFlow <=> execErr # None
            /\ ctl.iter = IF ctl.cond = "TRUE" THEN ctl.evals
                          ELSE ctl.evals - 1)
    /\ []((InWhile /\ pc = "while_stmts") =>
            ctl.cond = "TRUE" /\ ctl.iter = ctl.evals)

\* Three iterations with a CONTINUE in the second, then the condition was
\* FALSE: the body's PRINT ran in the first and the third
C11_Witness ==
    /\ InWhile
    /\ pc = "returned"
    /\ ctl.iter = 3
    /\ ctl.ran = <<1, 3>>
    /\ ctl.cond = "FALSE"
    /\ ctl.last = "Terminate"
    /\ flow = Terminate
    /\ execErr = None

\* The first condition of the chain that is TRUE or fails, 0 when none
RECURSIVE FirstDeciding(_, _)
FirstDeciding(conds, k) ==
    IF k > Len(conds) THEN 0
    ELSE IF conds[k] \in {"TRUE", "ERROR"} THEN k
    ELSE FirstDeciding(conds, k + 1)

\* C12: an IF statement executes the statements of at most one branch: the
\* first branch, in order IF then each ELSEIF, whose condition is TRUE; if
\* none is TRUE the ELSE branch runs when present and otherwise nothing
\* runs; conditions after the chosen branch are not acted on, and an error
\* evaluating a condition aborts the statement with no branch run.
C12_IfStmt ==
    (ctl.stmt = "if" /\ pc = "returned") =>
        LET d == FirstDeciding(ctl.conds, 1)
        IN  /\ Len(ctl.ran) <= 1
            /\ (d # 0 /\ ctl.conds[d] = "TRUE") =>
                  /\ ctl.ran = <<d>>
                  /\ ctl.evals = d
                  /\ execErr = None
            /\ (d # 0 /\ ctl.conds[d] = "ERROR") =>
                  /\ ctl.ran = <<>>
                  /\ ctl.evals = d
                  /\ execErr = PlainError
                  /\ flow = ErrorFlow
            /\ (d = 0 /\ ctl.hasElse) =>
                  /\ ctl.ran = <<Len(ctl.conds) + 1>>
                  /\ execErr = None
            /\ (d = 0 /\ ~ctl.hasElse) =>
                  /\ ctl.ran = <<>>
                  /\ execErr = None
                  /\ flow = Terminate

\* IF FALSE ... ELSEIF TRUE ... ELSEIF FALSE ... ELSE ...: the second branch
\* ran, the third condition was not evaluated
C12_Witness ==
    /\ ctl.stmt = "if"
    /\ pc = "returned"
    /\ ctl.conds = <<"FALSE", "TRUE", "FALSE">>
    /\ ctl.hasElse
    /\ ctl.ran = <<2>>
    /\ ctl.evals = 2
    /\ flow = Terminate

--------------------------------------------------------------------------
(* Claims on variable statements *)

\* What the variable statement of this step, recorded in varStmt', did
VarStep ==
    LET st == varStmt'
        had == st.name \in DOMAIN variables
    IN  /\ execErr' = st.err
        /\ (st.kind = "declare" /\ had) =>
              st.err = "Redeclared" /\ variables' = variables
        /\ (st.kind = "declare" /\ ~had) =>
              /\ st.err = None
              /\ DOMAIN variables' = DOMAIN variables \cup {st.name}
              /\ variables'[st.name] = st.value
              /\ \A v \in DOMAIN variables : variables'[v] = variables[v]
        /\ (st.kind = "substitute" /\ ~had) =>
              st.err = "UndefinedVariable" /\ variables' = variables
        /\ (st.kind = "substitute" /\ had) =>
              /\ st.err = None
              /\ variables' = [variables EXCEPT ![st.name] = st.value]
        /\ (st.kind = "dispose" /\ had) =>
              /\ st.err = None
              /\ DOMAIN variables' = DOMAIN variables \ {st.name}
              /\ \A v \in DOMAIN variables' : variables'[v] = variables[v]

\* C13: in any sequence of variable statements on one scope frame, declaring
\* a variable already declared in the frame fails with "variable is
\* redeclared" and leaves its value unchanged; assigning to a variable that
\* is not declared fails with "variable is undefined" and declares nothing;
\* after DISPOSE of a variable, declaring the same name again succeeds.
C13_VariableStatements ==
    /\ [][VarStep]_vars
    /\ []((/\ varStmt.kind = "declare"
           /\ varStmt.prev = [kind |-> "dispose", name |-> varStmt.name,
                              err |-> None]) =>
            /\ varStmt.err = None
            /\ varStmt.name \in DOMAIN variables
            /\ variables[varStmt.name] = varStmt.value)

\* @var4 was disposed and then declared again, with a value
C13_Witness ==
    /\ varStmt.kind = "declare"
    /\ varStmt.name = "@var4"
    /\ varStmt.value = Str("", 1)
    /\ varStmt.err = None
    /\ varStmt.prev = [kind |-> "dispose", name |-> "@var4", err |-> None]
    /\ variables["@var4"] = Str("", 1)
    /\ "@var9" \notin DOMAIN variables

--------------------------------------------------------------------------
(* Claims on TRIGGER ERROR *)

--------------------------------------------------------------------------
(* Claims on SET @@flag *)

\* The last SET named no known flag; it gave a value that is Null for the flag
UnknownFlag == ToUpper(flagStmt.name) \notin KnownFlags
NullForFlag ==
    /\ ~UnknownFlag
    /\ IsNull(FlagValue(flagStmt.name, flagStmt.value))

\* C15 as stated: whatever the value is, a SET of an unknown flag fails with
\* the invalid-flag-name error. A value expression that fails to evaluate
\* fails the statement first, with the error of the evaluation.
C15_AsStated ==
    (flagStmt.name # None /\ UnknownFlag) => flagStmt.err = "InvalidFlagName"

\* C15: SetFlag, when its value is an identifier or an expression that
\* evaluates, fails with the invalid-flag-name error for a name that is not
\* a known flag and with the value-not-allowed-format error for a value that
\* converts to Null for the flag's type (string, boolean, float for
\* WAIT_TIMEOUT, integer for CPU); in both cases, and when the expression
\* fails to evaluate, no session flag is modified.
C15_SetFlag ==
    [][(flagStmt' # flagStmt \/ flags' # flags) =>
         /\ (flagStmt'.kind # "error" /\ UnknownFlag') =>
               /\ flagStmt'.err = "InvalidFlagName"
               /\ execErr' = "InvalidFlagName"
               /\ flags' = flags
         /\ (flagStmt'.kind # "error" /\ NullForFlag') =>
               /\ flagStmt'.err = "FlagValueNotAllowedFormat"
               /\ execErr' = "FlagValueNotAllowedFormat"
               /\ flags' = flags
         /\ flagStmt'.kind = "error" =>
               /\ flagStmt'.err = "Evaluate"
               /\ flags' = flags]_vars

\* SET @@cpu TO an unknown ternary, after flags were set: refused, and the
\* flags are as they were
C15_Witness ==
    /\ flagStmt.name = "@@cpu"
    /\ flagStmt.value = NewTernary(-1)
    /\ flagStmt.err = "FlagValueNotAllowedFormat"
    /\ flags.CPU = 2
    /\ flags.NO_HEADER
    /\ flags.LINE_BREAK = <<"C", "R", "L", "F">>

--------------------------------------------------------------------------
(* Claims on the built-in functions *)

Max(a, b) == IF a < b THEN b ELSE a
IsPrefix(p, t) == Len(p) <= Len(t) /\ SubSeq(t, 1, Len(p)) = p

\* A call of LPAD or RPAD with a text, a length, a pad text and, when they
\* are given, a padding type and an encoding that are valid
PaddingCase ==
    /\ call.fn \in {"LPAD", "RPAD"}
    /\ Len(call.args) \in 3..5
    /\ call.args[1].type = "string"
    /\ call.args[2].type = "integer"
    /\ call.args[3].type = "string"
    /\ 3 < Len(call.args) =>
          /\ call.args[4].type = "string"
          /\ PaddingTypeOf(call.args[4].text) # None
    /\ 4 < Len(call.args) =>
          /\ call.args[5].type = "string"
          /\ ParseEncoding(call.args[5].text) # None

\* C16 as stated: for LPAD and RPAD with any input string, target length, pad
\* string and metric, the length of the result in the metric is max(target,
\* native length); the padding is the pad string repeated and truncated to
\* fit; an error is returned only when the metric is BYTE and the truncation
\* would split a multi-byte character. An empty pad string ends the call in
\* a panic (or pads with nothing of the pad string), and the metric WIDTH
\* returns the same error when the truncation would split a wide character.
C16_AsStated ==
    PaddingCase =>
        LET s == call.args[1].text
            target == call.args[2].n
            pad == call.args[3].text
            metric == PadTypeArg(call.args)
            enc == EncodingArg(call.args, 5)
            native == StrLen(s, metric, enc)
            padLen == Max(target - native, 0)
            repeated == Repeat(pad, padLen)
            direction == IF call.fn = "RPAD" THEN "R" ELSE "L"
        IN  /\ call.err # None =>
                  /\ call.err = "FunctionInvalidArgument"
                  /\ metric = "BYTE"
                  /\ \A n \in 0..Len(repeated) :
                         ByteSize(SubSeq(repeated, 1, n), enc) # padLen
            /\ call.err = None =>
                  /\ call.result.type = "string"
                  /\ StrLen(call.result.text, metric, enc) = Max(target, native)
                  /\ \E n \in 0..Len(repeated) :
                         /\ call.result.text
                               = Padded(s, SubSeq(repeated, 1, n), direction)
                         /\ IsPrefix(SubSeq(repeated, 1, n), repeated)

\* A call of SUBSTR with a text, a position and, when it is given, a length
\* that is not negative
SubstrCase ==
    /\ call.fn = "SUBSTR"
    /\ Len(call.args) \in {2, 3}
    /\ call.args[1].type = "string"
    /\ call.args[2].type = "integer"
    /\ Len(call.args) = 3 =>
          /\ call.args[3].type = "integer"
          /\ call.args[3].n >= 0

\* C17 as stated: SUBSTR(s, start[, len]) counts in characters from a
\* zero-based start; a negative start is taken from the end; when the
\* resolved start is below 0 or not below the length of s the result is Null;
\* otherwise the result is the characters from start up to min(start + len,
\* length of s). A length that overflows start + len ends the call in a
\* panic.
C17_AsStated ==
    SubstrCase =>
        LET s == call.args[1].text
            i == call.args[2].n
            start == IF i < 0 THEN i + Len(s) ELSE i
            stop == IF Len(call.args) = 3
                    THEN Min(start + call.args[3].n, Len(s)) ELSE Len(s)
        IN  /\ call.err = None
            /\ call.result = IF start < 0 \/ Len(s) <= start THEN NullValue
                             ELSE NewString(SubSeq(s, start + 1, stop))

\* C18 as stated: for every pair of integers with lo < hi, RAND(lo, hi)
\* returns an integer r with lo <= r <= hi and no error, and for hi <= lo it
\* returns a FunctionInvalidArgument error. A range wider than the greatest
\* integer overflows hi - lo + 1 and ends the call in a panic.
C18_AsStated ==
    (/\ call.fn = "RAND"
     /\ Len(call.args) = 2
     /\ call.args[1].type = "integer"
     /\ call.args[2].type = "integer") =>
        IF call.args[1].n < call.args[2].n
        THEN /\ call.err = None
             /\ call.result.type = "integer"
             /\ call.args[1].n <= call.result.n
             /\ call.result.n <= call.args[2].n
        ELSE /\ call.err = "FunctionInvalidArgument"
             /\ call.result = Nil

\* The counts of arguments each function of the registry accepts
AcceptedCounts(fn) ==
    CASE fn \in {"COALESCE", "FORMAT", "CALL"} -> Nat \ {0}
      [] fn = "IF" -> {3}
      [] fn \in RoundNames \cup TrimNames \cup {"BYTE_LEN"} -> {1, 2}
      [] fn = "NUMBER_FORMAT" -> 1..5
      [] fn = "RAND" -> {0, 2}
      [] fn \in {"LPAD", "RPAD"} -> {3, 4, 5}
      [] fn = "SUBSTR" -> {2, 3}
      [] fn \in {"LIST_ELEM", "REPLACE"} -> {3}
      [] fn \in Math2Names \cup CryptoHMACNames \cup DatetimeAddNames
               \cup TimeDiffNames
               \cup {"IFNULL", "NULLIF", "INSTR", "JSON_VALUE",
                     "DATETIME_FORMAT", "DATE_DIFF"} -> {2}
      [] OTHER -> {1}

\* The conditional functions; the functions that take a Null as a value;
\* the arguments a function requires, the later ones being optional
Conditionals == {"COALESCE", "IF", "IFNULL", "NULLIF"}
NullTaking == {"RAND", "FORMAT", "TERNARY", "CALL"}
RequiredArgs(fn) ==
    CASE fn \in {"NUMBER_FORMAT", "BYTE_LEN"} -> 1
      [] fn \in {"LPAD", "RPAD"} -> 3
      [] OTHER -> MaxArgs + 1

\* A call with an accepted count of arguments, one of the first n Null
NullCall(n) ==
    /\ call.fn \in FunctionNames
    /\ Len(call.args) \in AcceptedCounts(call.fn)
    /\ \E i \in 1..Min(n, Len(call.args)) : IsNull(call.args[i])

\* C19 as stated: apart from COALESCE, IF, IFNULL and NULLIF, a call of a
\* function of the registry with a valid number of arguments, one of them
\* Null, returns Null and no error. RAND and FORMAT return an error, TERNARY
\* returns UNKNOWN, and a Null optional argument is taken for the default.
C19_AsStated ==
    (NullCall(MaxArgs + 1) /\ call.fn \notin Conditionals) =>
        /\ call.result = NullValue
        /\ call.err = None

\* C19: apart from the conditional functions COALESCE, IF, IFNULL and NULLIF
\* and from RAND, FORMAT, TERNARY and CALL, a call of a function of the
\* registry with a valid number of arguments in which a required argument is
\* Null returns Null and no error; every argument is required but the second
\* to fifth of NUMBER_FORMAT, the fourth and fifth of LPAD and RPAD and the
\* second of BYTE_LEN, where a Null stands for the default.
C19_NullPropagation ==
    (/\ NullCall(RequiredArgs(call.fn))
     /\ call.fn \notin Conditionals \cup NullTaking) =>
        /\ call.result = NullValue
        /\ call.err = None

\* ADD_DAY(1, NULL) is Null; so is LPAD(NULL, 1, 'a', NULL, 'a'), before the
\* encoding is looked at
C19_Witness ==
    \/ /\ call.fn = "ADD_DAY"
       /\ call.args = <<NewInteger(1), NullValue>>
       /\ call.result = NullValue
       /\ call.err = None
    \/ /\ call.fn = "LPAD"
       /\ call.args = <<NullValue, NewInteger(1), NewString(<<"a">>),
                        NullValue, NewString(<<"a">>)>>
       /\ call.result = NullValue
       /\ call.err = None

\* C20: every function of the registry has a fixed set of accepted argument
\* counts, and a call with any other count returns a FunctionArgumentLength
\* error and no value, whatever the argument values are; a call with an
\* accepted count never returns that error.
C20_ArgumentLength ==
    call.fn \in FunctionNames =>
        /\ Len(call.args) \notin AcceptedCounts(call.fn) =>
              /\ call.err = "FunctionArgumentLength"
              /\ call.result = Nil
        /\ Len(call.args) \in AcceptedCounts(call.fn) =>
              call.err # "FunctionArgumentLength"

\* NUMBER_FORMAT with six arguments, the first of them Null: the error, not
\* Null
C20_Witness ==
    /\ call.fn = "NUMBER_FORMAT"
    /\ Len(call.args) = 6
    /\ IsNull(call.args[1])
    /\ call.err = "FunctionArgumentLength"
    /\ call.result = Nil

--------------------------------------------------------------------------
(* Claims on ROUND, INSTR and the radix functions *)

\* A call of ROUND on a number, with the place it rounds at
RoundCase ==
    /\ call.fn = "ROUND"
    /\ Len(call.args) \in {1, 2}
    /\ IsNumber(call.args[1])
    /\ Len(call.args) = 2 => ~IsNull(ToInteger(call.args[2]))
RoundPlace == IF Len(call.args) = 2 THEN ToInteger(call.args[2]).n ELSE 0
Number(whole, quarters) == whole * Grid + quarters * (Grid \div 4)

\* C21 as stated: ROUND(x[, place]) rounds half away from zero at the given
\* decimal place: at place 0 the result is a whole number no further than a
\* half from x, and the one away from zero where it is a half from x;
\* ROUND(2.5) = 3, ROUND(-2.5) = -3, ROUND(2.15, 1) = 2.2; and ROUND(-x, place)
\* = -ROUND(x, place) for every x and place. The greatest float64 below a half
\* is rounded to 1.
C21_AsStated ==
    RoundCase =>
        LET x == Raw(call.args[1])
            r == Raw(call.result)
        IN  /\ call.err = None
            /\ IsNumber(call.result)
            /\ RoundPlace = 0 =>
                   /\ r % Grid = 0
                   /\ 2 * Abs(x - r) <= Grid
                   /\ 2 * Abs(x - r) = Grid => Abs(r) > Abs(x)
            /\ Round([call.args EXCEPT ![1] = ParseFloat64(0 - x)])
                   = {Ok(ParseFloat64(0 - r))}
            /\ call.args = <<NewFloat64(Number(2, 2))>> =>
                   call.result = NewInteger(3)
            /\ call.args = <<NewFloat64(Number(-2, -2))>> =>
                   call.result = NewInteger(-3)
            /\ call.args = <<NewFloat64(Nearest(215 * Grid, 100)),
                             NewInteger(1)>> =>
                   r = Nearest(22 * Grid, 10)

--------------------------------------------------------------------------
(* Claims on the end of Run *)

\* Execute has returned and Run has decided on the implicit Commit
RunDecided == pc \in {"defer_out", "defer_rollback", "done"}

\* C22: Run calls Commit exactly when Execute returns no error and the flow
\* is Terminate, and it does so before the deferred Rollback; when a script
\* ends through EXIT (flow Exit, no error) Commit is not called and the final
\* Rollback discards every change the script left uncommitted: an updated
\* file keeps its content, a created file is deleted, nothing stays dirty,
\* cached or locked.
C22_ImplicitCommit ==
    /\ [](RunDecided =>
            IF execErr = None /\ flow = Terminate
            THEN /\ Len(calls) >= 1
                 /\ calls[1] = "Commit"
                 /\ \A i \in 2..Len(calls) : calls[i] # "Commit"
            ELSE \A i \in 1..Len(calls) : calls[i] # "Commit")
    /\ [](~RunDecided => calls = <<>>)
    /\ [](pc = "done" =>
            calls \in {<<"Commit", "Rollback", "Release">>,
                       <<"Rollback", "Release">>})
    /\ [][(pc = "defer_rollback" /\ flow = Exit /\ execErr = None) =>
            /\ calls = <<>>
            /\ calls' = <<"Rollback", "Release">>
            /\ \A p \in tx.updated : tx'.disk[p] = tx.disk[p]
            /\ \A p \in tx.created : tx'.disk[p] = Absent
            /\ \A p \in Dirty(tx) : tx'.cache[p] = NotLoaded
            /\ Dirty(tx') = {}
            /\ tx'.lock = {}]_vars

\* A script that updated "t", created "n" and ended through EXIT is about to
\* be rolled back without a Commit
C22_Witness ==
    /\ pc = "defer_rollback"
    /\ flow = Exit
    /\ execErr = None
    /\ calls = <<>>
    /\ tx.updated = {"t"}
    /\ tx.created = {"n"}
    /\ tx.cache["t"] = View(<<"r2">>)
    /\ tx.disk["t"] = File(Encode(<<"r1">>))

\* The implicit Commit of this step fails: the script ended clean and
\* something is still uncommitted after the step
ImplicitCommitFails ==
    /\ pc = "executed"
    /\ execErr = None
    /\ flow = Terminate
    /\ Dirty(tx') # {}

\* C23: when the implicit Commit at the end of a clean Run fails, the failure
\* is only logged: Run still returns nil, and the deferred Rollback and
\* resource release still run.
C23_CommitFailureLogged ==
    /\ [][ImplicitCommitFails =>
            /\ calls' = <<"Commit">>
            /\ retErr' = None
            /\ pc' \in {"defer_out", "defer_rollback"}]_vars
    /\ []((RunDecided /\ calls = <<"Commit">>) => retErr = None)
    /\ [][(pc = "defer_out" /\ calls = <<"Commit">>) =>
            pc' = "defer_rollback" /\ retErr' = None]_vars
    /\ [][(pc = "defer_rollback" /\ calls = <<"Commit">>) =>
            /\ calls' = <<"Commit", "Rollback", "Release">>
            /\ tx' = ReleaseResources(Rollback(tx))
            /\ retErr' = None
            /\ pc' = "done"]_vars

\* The implicit Commit has failed on "t": what it wrote is in the temp file,
\* the update is still uncommitted, Run is returning nil
C23_Witness ==
    /\ pc = "defer_rollback"
    /\ calls = <<"Commit">>
    /\ retErr = None
    /\ "t" \in tx.updated
    /\ tx.temp["t"] = File(Encode(<<"r2">>))
    /\ tx.disk["t"] = File(Encode(<<"r1">>))

--------------------------------------------------------------------------
(* Claims on the exit of the shell and on its line buffer *)

\* C24: every return of LaunchInteractiveShell after the pipe/redirection
\* check runs Rollback and the resource release exactly once, including when
\* creating the terminal fails; when a terminal was created it is torn down
\* and set to nil before that Rollback; the shell itself never calls Commit,
\* so changes not committed by an executed COMMIT statement are discarded at
\* exit: an updated file keeps its content, a created file is deleted.
C24_ShellExit ==
    /\ [](pc = "done" =>
            CASE retErr = "PipeError" -> calls = <<>>
              [] retErr = "TerminalError" -> calls = <<"Rollback", "Release">>
              [] OTHER -> calls = <<"Teardown", "Rollback", "Release">>)
    /\ [](\A i \in 1..Len(calls) : calls[i] # "Commit")
    /\ [][pc = "teardown" =>
            /\ shell.term
            /\ ~shell'.term
            /\ calls = <<>>
            /\ calls' = <<"Teardown">>
            /\ tx' = tx
            /\ pc' = "defer_rollback"]_vars
    /\ [][pc = "defer_rollback" =>
            /\ ~shell.term
            /\ calls' = calls \o <<"Rollback", "Release">>
            /\ \A p \in tx.updated : tx'.disk[p] = tx.disk[p]
            /\ \A p \in tx.created : tx'.disk[p] = Absent
            /\ Dirty(tx') = {}
            /\ tx'.lock = {}
            /\ pc' = "done"]_vars
    /\ [][pc' = "done" =>
            \/ pc = "defer_rollback"
            \/ pc = "launch" /\ retErr' = "PipeError"]_vars

\* The terminal could not be created: the shell has returned that error
\* through the deferred Rollback and release, with no terminal to tear down
C24_Witness ==
    /\ pc = "done"
    /\ retErr = "TerminalError"
    /\ calls = <<"Rollback", "Release">>
    /\ ~shell.term

\* What the pass over one line read does to the buffer, by the line: it is
\* buffered, or the whole buffer is dispatched (skipped, or parsed and then
\* executed unless it does not parse)
EndsInBackslash(line) == 0 < Len(line) /\ line[Len(line)] = "\\"
Blank(ls) == SaveQuery(ls) \in {<<>>, <<";">>}
PassOver(input) ==
    LET line == TrimRight(input)
        ls == Append(shell.lines, line)
    IN  IF EndsInBackslash(line)
        THEN /\ shell'.lines =
                    Append(shell.lines, SubSeq(line, 1, Len(line) - 1))
             /\ shell'.saved = <<>>
             /\ pc' = "prompt"
        ELSE IF Blank(ls)
        THEN /\ shell'.lines = <<>>
             /\ shell'.saved = <<>>
             /\ pc' = "prompt"
        ELSE /\ shell'.saved = <<SaveQuery(ls)>>
             /\ \/ pc' = "execute" /\ shell'.lines = ls
                \/ /\ pc' = "prompt"
                   /\ shell'.lines = <<>>
                   /\ shell'.last = "syntax"

\* C25: in the interactive loop the pending-line buffer is non-empty at a
\* prompt only if every buffered line was entered with a trailing backslash
\* since the last dispatch: a line ending in a backslash is buffered without
\* the backslash and nothing is parsed or executed; a line not ending in a
\* backslash causes the whole buffer to be parsed and executed once, or
\* skipped unparsed and unsaved to history when it is blank or only ';';
\* after a skip, a parse error, an execution error or a successful execution
\* the buffer is empty.
C25_LineBuffer ==
    /\ [][(pc = "prompt" /\ shell'.last \notin {EOF, ReadError}) =>
            /\ \E input \in InputLines : PassOver(input)
            /\ tx' = tx
            /\ calls' = calls]_vars
    /\ []((pc = "prompt" /\ shell.lines # <<>>) =>
            /\ shell.last = "buffered"
            /\ shell.prompt = "continuous")
    /\ []((pc = "prompt"
             /\ shell.last \in {"skipped", "syntax", "error", "executed"}) =>
            shell.lines = <<>>)
    /\ [][pc = "execute" => shell'.lines = shell.lines]_vars
    /\ [][(pc = "executed" /\ pc' = "prompt") =>
            /\ shell'.lines = <<>>
            /\ shell'.last \in {"error", "executed"}]_vars
    /\ [][(pc' = "execute" /\ pc # "execute") =>
            pc = "prompt" /\ shell'.last = "parsed"]_vars

\* Two lines were buffered, each entered with a trailing backslash, and the
\* line "a;" has sent all three to Execute as one query
C25_Witness ==
    /\ pc = "execute"
    /\ shell.last = "parsed"
    /\ shell.lines = << <<"a">>, <<>>, <<"a", ";">> >>
    /\ shell.saved = << <<"a", " ", "a", ";">> >>

--------------------------------------------------------------------------
(* Claims on SOURCE *)

\* What this step of q's LoadStatementsFromFile does about the handler
SourceStepOf(q) ==
    /\ (source[q].st = "idle" /\ source'[q].st = "returned") =>
          /\ source'[q].err = "SourceFileNotExist"
          /\ holders' = holders
          /\ acquirer'[q].st = "idle"
    /\ (source[q].st = "acquiring" /\ source'[q].st = "returned") =>
          /\ source'[q].err = "ReadFile"
          /\ ~Grantable(q, Shared)
          /\ holders' = holders
          /\ acquirer'[q].st = "idle"
    /\ (source[q].st = "reading" /\ source'[q].st = "returned") =>
          /\ source'[q].err = "ReadFile"
          /\ holders[q] = Shared
          /\ holders'[q] = None
    /\ (source[q].st = "parsing" /\ source'[q].st = "returned") =>
          /\ source'[q].err \in {None, SyntaxError}
          /\ source'[q].statements <=> source'[q].err = None
          /\ holders[q] = Shared
          /\ holders'[q] = None
    /\ source'[q].st = "returned" =>
          source[q].st \in {"idle", "acquiring", "reading", "parsing",
                            "returned"}

\* C26: LoadStatementsFromFile (SOURCE) releases the shared read handler it
\* acquired on every return path, whether reading fails, parsing fails or the
\* statements are returned; when the file does not exist or the handler
\* cannot be acquired it returns an error without holding any handler.
C26_SourceReleasesHandler ==
    /\ [](\A q \in Readers :
            /\ source[q].st \in {"idle", "returned"} =>
                  /\ holders[q] = None
                  /\ acquirer[q].st = "idle"
            /\ holders[q] # None <=> source[q].st \in {"reading", "parsing"}
            /\ holders[q] \in {None, Shared}
            /\ source[q].st = "returned" =>
                  (source[q].err = None <=> source[q].statements))
    /\ [][\A q \in Readers : SourceStepOf(q)]_vars

\* p1 read the file under the shared lock and returned a syntax error with
\* the lock released, while p2 is still reading under its own shared lock
C26_Witness ==
    /\ source["p1"] = [st |-> "returned", err |-> SyntaxError,
                       statements |-> FALSE]
    /\ holders["p1"] = None
    /\ acquirer["p1"].st = "idle"
    /\ source["p2"].st = "reading"
    /\ holders["p2"] = Shared

--------------------------------------------------------------------------
(* Claims on REMOVE from a flag *)

\* The last REMOVE named the DATETIME_FORMAT flag; another flag of the session
RemoveFromFormats == ToUpper(flagStmt.name) = "@@DATETIME_FORMAT"
RemoveFromOther == ToUpper(flagStmt.name) \in KnownFlags

\* C28 as stated: REMOVE from a known flag other than DATETIME_FORMAT returns
\* the not-supported error and REMOVE from an unknown flag the
\* invalid-flag-name error, whatever the value. A value expression that fails
\* to evaluate fails the statement first, with the error of the evaluation.
C28_AsStated ==
    flagStmt.name # None =>
        /\ RemoveFromOther => flagStmt.err = "RemoveFlagNotSupportedName"
        /\ (~RemoveFromOther /\ ~RemoveFromFormats) =>
              flagStmt.err = "InvalidFlagName"

\* C28: REMOVE on the DATETIME_FORMAT flag, when its value evaluates: a value
\* convertible to an integer i removes exactly the element at zero-based
\* index i when 0 <= i < length and otherwise changes nothing and returns no
\* error; a value that is only convertible to a string removes every element
\* equal to it; in all cases the remaining elements keep their relative
\* order; for any other known flag the not-supported error is returned and
\* for an unknown flag the invalid-flag-name error, with no flag modified.
\* A value that fails to evaluate returns the error of the evaluation for
\* any flag name, and a value that converts to neither returns an error,
\* with no flag modified.
C28_RemoveFlagElement ==
    [][(flagStmt' # flagStmt \/ flags' # flags) =>
         LET before == flags.DATETIME_FORMAT
             after == flags'.DATETIME_FORMAT
             p == flagStmt'.value
             i == ToInteger(p).n
             Differs(v) == v # ToStr(p).text
         IN  /\ [flags' EXCEPT !.DATETIME_FORMAT = before] = flags
             /\ execErr' = flagStmt'.err
             /\ flagStmt'.kind = "error" =>
                   flagStmt'.err = "Evaluate" /\ flags' = flags
             /\ (flagStmt'.kind # "error" /\ RemoveFromFormats') =>
                   IF ~IsNull(ToInteger(p))
                   THEN /\ flagStmt'.err = None
                        /\ IF 0 <= i /\ i < Len(before)
                           THEN /\ Len(after) = Len(before) - 1
                                /\ \A j \in 1..i : after[j] = before[j]
                                /\ \A j \in (i + 1)..Len(after) :
                                       after[j] = before[j + 1]
                           ELSE after = before
                   ELSE IF ~IsNull(ToStr(p))
                   THEN /\ flagStmt'.err = None
                        /\ after = SelectSeq(before, Differs)
                   ELSE /\ flagStmt'.err = "InvalidFlagValueToBeRemoved"
                        /\ flags' = flags
             /\ (flagStmt'.kind # "error" /\ RemoveFromOther') =>
                   /\ flagStmt'.err = "RemoveFlagNotSupportedName"
                   /\ flags' = flags
             /\ (flagStmt'.kind # "error" /\ ~RemoveFromOther'
                    /\ ~RemoveFromFormats') =>
                   /\ flagStmt'.err = "InvalidFlagName"
                   /\ flags' = flags]_vars

\* REMOVE 1 FROM @@datetime_format has left the first and the third of three
\* formats, in their order
C28_Witness ==
    /\ flagStmt.name = "@@datetime_format"
    /\ flagStmt.value = NewInteger(1)
    /\ flagStmt.err = None
    /\ flags.DATETIME_FORMAT = << <<"g">>, <<"1">> >>

\* The last call was INSTR(s, sub) on a text and a sought text
InstrCase ==
    /\ call.fn = "INSTR"
    /\ Len(call.args) = 2
InstrStr == ToStr(call.args[1]).text
InstrSub == ToStr(call.args[2]).text

\* sub stands in s after the first k runes of s
OccursAfter(s, sub, k) ==
    /\ k + Len(sub) <= Len(s)
    /\ \A i \in 1..Len(sub) : s[k + i] = sub[i]

\* C29: INSTR(s, sub) returns the zero-based byte offset of the first
\* occurrence of sub in s (not the character offset), returns Null when sub
\* does not occur in s or when either argument is Null, and returns 0 for an
\* empty sub.
C29_Instr ==
    InstrCase =>
        /\ call.err = None
        /\ IF IsNull(call.args[1]) \/ IsNull(call.args[2])
           THEN call.result = NullValue
           ELSE IF \E k \in 0..Len(InstrStr) :
                       OccursAfter(InstrStr, InstrSub, k)
           THEN \E k \in 0..Len(InstrStr) :
                    /\ OccursAfter(InstrStr, InstrSub, k)
                    /\ \A j \in 0..(k - 1) :
                           ~OccursAfter(InstrStr, InstrSub, j)
                    /\ call.result =
                           NewInteger(ByteSize(SubSeq(InstrStr, 1, k), "UTF8"))
           ELSE call.result = NullValue
        /\ (~IsNull(call.args[1]) /\ ~IsNull(call.args[2])
               /\ InstrSub = <<>>) => call.result = NewInteger(0)

\* INSTR has found "a" behind two three-byte characters: at the offset 6 in
\* bytes, 2 in characters
C29_Witness ==
    /\ call.fn = "INSTR"
    /\ call.args = <<NewString(<<"u65E5", "u65E5", "a">>), NewString(<<"a">>)>>
    /\ call.result = NewInteger(6)

\* The decoder of an encoder
DecoderOf(fn) ==
    CASE fn = "BIN" -> "BIN_TO_DEC"
      [] fn = "OCT" -> "OCT_TO_DEC"
      [] fn = "HEX" -> "HEX_TO_DEC"

\* An encoder has returned the text of an integer, and its decoder is called
\* on that text
RoundTrip ==
    /\ call.fn \in FormatIntNames
    /\ call.args \in {<<n>> : n \in Ints}
    /\ call'.fn = DecoderOf(call.fn)
    /\ call'.args = <<call.result>>

\* C30 as stated: the radix encoders and decoders are inverse on integers:
\* for every integer n of the width, BIN_TO_DEC(BIN(n)) = n,
\* OCT_TO_DEC(OCT(n)) = n and HEX_TO_DEC(HEX(n)) = n. HEX(0) is "0", from
\* which HEX_TO_DEC trims every leading "0" and "x" and so parses the empty
\* text: HEX_TO_DEC(HEX(0)) is Null.
C30_AsStated ==
    [][RoundTrip => (call'.err = None /\ call'.result = call.args[1])]_vars

\* HEX_TO_DEC has been called on "0", the text of HEX(0), and returned Null
C30_Witness ==
    /\ call.fn = "HEX_TO_DEC"
    /\ call.args = <<NewString(FormatInt(0, 16))>>
    /\ call.result = NullValue

==========================================================================
